---- MODULE Spec2Model ----
(***************************************************************************)
(* Synapse-Net load-balancing simulation: the orchestrator's tick loop     *)
(* (LoadBalancerSimulation), the failure injector, the adaptive migration  *)
(* engine and the redundancy/failover manager.                             *)
(*                                                                         *)
(* Units.  Times are whole seconds.  CPU load is in percent points,        *)
(* memory in tenths of a GB, transactions in tx/s, severities and risk     *)
(* scores in hundredths.  Scores that the code computes in floating point  *)
(* are computed here in fixed point, in millionths (Micro).                *)
(***************************************************************************)
EXTENDS Integers, Sequences, FiniteSets, TLC

\* ------------------------------------------------------------------ bounds

\* time.time() when the simulation object is constructed
StartTime == 1000
\* SimulationConfig.time_step: the clock advance of one loop iteration
TimeStep == 10
\* SimulationConfig.simulation_duration of a run that follows failures to
\* their recovery
FailureRunDuration == 80
\* SimulationConfig.simulation_duration of the other runs
RunDuration == 40
\* requests the traffic generator delivers over a run without failures
MaxRequests == 4
\* requests the traffic generator delivers over a run of the default
\* configuration
DefaultRunRequests == 2
\* failure scenarios injected over a run with failure injection only
MaxFailures == 2
\* failure scenarios injected over a run that follows cascading failures
MaxCascadeRunFailures == 3
\* SimulationConfig.simulation_duration of a run that follows cascading
\* failures
CascadeRunDuration == 40
\* SimulationConfig.simulation_duration of a run that follows recoveries
RecoveryRunDuration == 60
\* failure scenarios injected over a run that follows recoveries
MaxRecoveryRunFailures == 2
\* failure scenarios injected over a run in which two failures cascade to
\* the same dependents
MaxCascadePairFailures == 6
\* failure scenarios injected over a run of the default configuration
DefaultRunFailures == 1
\* calls of inject_specific_failure over a run
MaxSpecificFailures == 1
\* calls of implement_automated_failover over a run of the default
\* configuration
MaxFailovers == 1
\* calls of implement_automated_failover over a run of failovers
MaxFailoverCalls == 1
\* requests the traffic generator delivers over a run of failovers
FailoverRunRequests == 2
\* nodes the caller marks failed over a run of failovers
MaxMarkedNodes == 3
\* calls of implement_automated_failover over a run of recoveries
MaxRecoveryCalls == 3
\* scenarios the manager creates over a run of recoveries
MaxScenarios == 1
\* get_current_state calls in a run
MaxObtainedStates == 1
\* calls of the Java bridge in a run
MaxBridgeCalls == 2
\* network conditions injected into the delay simulator in a run
MaxNetworkConditions == 1
\* simulate_network_partition calls on the delay simulator in a run
MaxPartitionCalls == 1
\* get_delay_to_node calls in a run
MaxDelayReads == 1
\* bits of the significand of the floating-point numbers of the model (the
\* interpreter's have 53)
FloatBits == 6

\* draws of random.expovariate clamped to [5, 600]
DurationDraws == {10, 100}
\* draws of random.uniform(5.0, 30.0), the cascading delay
CascadeDelayDraws == {5, 30}
\* draws of random.uniform(60.0, 300.0), the partition duration
PartitionDurationDraws == {60}
\* draws of random.uniform(1.0, 10.0), the time a migration takes
MigrationDurationDraws == {10}
\* draws of hash(request.service_id), the weighted round robin index
HashDraws == {0, 13}

\* ------------------------------------------------------- models.py tables

NodeOrder == <<"EDGE1", "EDGE2", "CORE1", "CORE2", "CLOUD1">>

NodeId == {NodeOrder[i] : i \in 1..Len(NodeOrder)}

NodeIndex(n) == CHOOSE i \in 1..Len(NodeOrder) : NodeOrder[i] = n

\* recovery_time: float = None
NoTime == 0

Micro == 1000 * 1000

Latency(n) ==
    CASE n = "EDGE1" -> 12 [] n = "EDGE2" -> 15 [] n = "CORE1" -> 8
      [] n = "CORE2" -> 10 [] n = "CLOUD1" -> 22

Throughput(n) ==
    CASE n = "EDGE1" -> 500 [] n = "EDGE2" -> 470 [] n = "CORE1" -> 1000
      [] n = "CORE2" -> 950 [] n = "CLOUD1" -> 1250

\* NodeMetrics.cpu_utilization of the baseline: the node's CPU capacity
CpuCapacity(n) ==
    CASE n = "EDGE1" -> 45 [] n = "EDGE2" -> 50 [] n = "CORE1" -> 60
      [] n = "CORE2" -> 55 [] n = "CLOUD1" -> 72

\* NodeMetrics.memory_usage of the baseline, in tenths of a GB
MemCapacity(n) ==
    CASE n = "EDGE1" -> 80 [] n = "EDGE2" -> 45 [] n = "CORE1" -> 120
      [] n = "CORE2" -> 100 [] n = "CLOUD1" -> 160

\* NodeMetrics.transactions_per_sec of the baseline
TxCapacity(n) ==
    CASE n = "EDGE1" -> 150 [] n = "EDGE2" -> 100 [] n = "CORE1" -> 250
      [] n = "CORE2" -> 200 [] n = "CLOUD1" -> 300

\* draws of _generate_service_requests: cpu uniform(5, 25), memory
\* uniform(0.5, 3.0), transactions randint(1, 10), priority randint(1, 10)
RequestDraws ==
    { [cpu_requirement |-> 25, memory_requirement |-> 30,
       transaction_load |-> 10, priority |-> 10] }

Strategies == {"weighted_round_robin", "least_connections", "resource_aware"}

\* ------------------------------------------------------------------- state

VARIABLES
    config,                    \* SimulationConfig: enable flags and duration
    workload,                  \* what the run's environment delivers
    now,                       \* the clock the loop reads (time.time())
    state_current_time,        \* state.current_time
    active_nodes,              \* state.active_nodes
    failed_nodes,              \* state.failed_nodes
    cpu_distribution,          \* load_balancing_metrics.cpu_distribution
    memory_distribution,       \* load_balancing_metrics.memory_distribution
    transaction_distribution,  \* load_balancing_metrics.transaction_distribution
    total_services,            \* load_balancing_metrics.total_services
    migrations,                \* load_balancing_metrics.migrations
    load_balance_index,        \* load_balancing_metrics.load_balance_index (Micro)
    service_allocations,       \* state.service_allocations: service i -> node
    active_failures,           \* state.active_failures
    migration_history,         \* state.migration_history
    current_strategy,          \* LoadBalancerSimulation.current_strategy
    successful_requests,       \* run_simulation's counter
    failed_requests,           \* run_simulation's counter
    failure_history,           \* FailureInjector.failure_history
    last_failure_times,        \* FailureInjector.last_failure_times
    last_migration_times,      \* AdaptiveMigrationEngine.last_migration_times
    active_migrations,         \* AdaptiveMigrationEngine.active_migrations
    node_performance_history,  \* AdaptiveMigrationEngine.node_performance_history
    replication_groups,        \* RedundancyFailoverManager.replication_groups
    failover_history,          \* RedundancyFailoverManager.failover_history
    failover_calls,            \* implement_automated_failover: each call's
                               \* argument and whether it returned an event
    multi_node_failure_scenarios, \* RedundancyFailoverManager.multi_node_failure_scenarios
    network_partitions,        \* RedundancyFailoverManager.network_partitions
    obtained_states,           \* what each get_current_state call returned,
                               \* as it was at the call
    loop_error,                \* the policy module whose exception has left
                               \* run_simulation, "" while none has
    bridge_calls,              \* each call of a JavaLoadBalancerIntegration
                               \* method: the bridge's outcome and the result
    cpu_loads,                 \* cpu_distribution as the binary floating-point
                               \* numbers the interpreter holds
    index_update,              \* the last _update_load_balance_index on
                               \* cpu_loads: the loads it read and its result
    baseline_delays,           \* NetworkDelaySimulator.baseline_delays:
                               \* (source, destination) -> NetworkDelay, with
                               \* delays in microseconds, loss rate in Micro
    current_conditions,        \* NetworkDelaySimulator.current_conditions
    delay_history,             \* the delays get_delay_to_node has returned
    simulated_partitions       \* the partitioned_nodes of each
                               \* simulate_network_partition of the simulator

simVars == <<now, state_current_time, active_nodes, failed_nodes, cpu_distribution,
             memory_distribution, transaction_distribution, total_services,
             migrations, load_balance_index, service_allocations,
             active_failures, migration_history, current_strategy,
             successful_requests, failed_requests>>

injectorVars == <<failure_history, last_failure_times>>

engineVars == <<last_migration_times, active_migrations,
                node_performance_history>>

managerVars == <<replication_groups, failover_history, failover_calls,
                 multi_node_failure_scenarios, network_partitions>>

runVars == <<config, workload>>

readerVars == <<obtained_states>>

loopVars == <<loop_error>>

bridgeVars == <<bridge_calls>>

floatVars == <<cpu_loads, index_update>>

delayVars ==
    <<baseline_delays, current_conditions, delay_history, simulated_partitions>>

vars == <<runVars, readerVars, loopVars, bridgeVars, floatVars, delayVars, simVars, injectorVars, engineVars, managerVars>>

\* ---------------------------------------------------------------- helpers

Max(a, b) == IF a >= b THEN a ELSE b

Min(a, b) == IF a <= b THEN a ELSE b

RECURSIVE SumOver(_, _)
SumOver(f, S) ==
    IF S = {} THEN 0
    ELSE LET x == CHOOSE y \in S : TRUE IN f[x] + SumOver(f, S \ {x})

\* integer square root (floor), by bisection
RECURSIVE SqrtBetween(_, _, _)
SqrtBetween(x, lo, hi) ==
    IF lo >= hi THEN lo
    ELSE LET mid == (lo + hi + 1) \div 2
         IN IF mid * mid <= x THEN SqrtBetween(x, mid, hi)
            ELSE SqrtBetween(x, lo, mid - 1)

\* 46340 is the largest root of a 32-bit integer
ISqrt(x) == SqrtBetween(x, 0, Min(x, 46340))

\* --------------------------------------------- load_balancer_simulation.py

\* _initialize_node_weights: the reliability factor, in tenths
ReliabilityFactor(n) ==
    IF n \in {"EDGE1", "CORE2"} THEN 9
    ELSE IF n \in {"EDGE2", "CLOUD1"} THEN 8
    ELSE 7

\* _initialize_node_weights: (throughput / latency) / 100 * reliability (Micro)
NodeWeight(n) == (Throughput(n) * ReliabilityFactor(n) * 1000) \div Latency(n)

AvailableNodes == active_nodes \ failed_nodes

CanAccommodateRequest(n, req) ==
    /\ cpu_distribution[n] + req.cpu_requirement <= CpuCapacity(n)
    /\ memory_distribution[n] + req.memory_requirement <= MemCapacity(n)
    /\ transaction_distribution[n] + req.transaction_load <= TxCapacity(n)

\* (1 - cpu)*0.4 + (1 - memory)*0.3 + (1 - transactions)*0.3 (Micro)
CapacityScore(n) ==
    ((CpuCapacity(n) - cpu_distribution[n]) * 400000) \div CpuCapacity(n)
    + ((MemCapacity(n) - memory_distribution[n]) * 300000) \div MemCapacity(n)
    + ((TxCapacity(n) - transaction_distribution[n]) * 300000) \div TxCapacity(n)

CalculateNodeScore(n, req) ==
    LET performance_score ==
            (NodeWeight(n) * Throughput(n)) \div (Latency(n) * 1000)
        priority_bonus == req.priority * 100000
    IN (CapacityScore(n) * 6 + performance_score * 3 + priority_bonus) \div 10

\* cpu + memory + transactions of a node, in tenths
SummedLoad(n) ==
    cpu_distribution[n] * 10 + memory_distribution[n]
    + transaction_distribution[n] * 10

\* the fallback taking a node of maximal summed load
FindMostLoadedNode(available) ==
    {n \in available : \A m \in available : SummedLoad(n) >= SummedLoad(m)}

\* min() over a list built from a set: any node of minimal summed load
FindLeastLoadedNode(available) ==
    {n \in available : \A m \in available : SummedLoad(n) <= SummedLoad(m)}

\* the nodes the resource-aware strategy may return (ties are broken by the
\* iteration order of a set, which is arbitrary)
SelectNodeResourceAware(req, available) ==
    LET fitting == {n \in available : CanAccommodateRequest(n, req)}
    IN IF fitting # {}
       THEN {n \in fitting :
               \A m \in fitting : CalculateNodeScore(n, req) >= CalculateNodeScore(m, req)}
       ELSE FindLeastLoadedNode(available)

ConnectionCount(n) ==
    Cardinality({i \in 1..Len(service_allocations) : service_allocations[i] = n})

SelectNodeLeastConnections(req, available) ==
    {n \in available : \A m \in available : ConnectionCount(n) <= ConnectionCount(m)}

\* the weighted list built by _select_node_weighted_round_robin over the
\* nodes order[k..]: max(1, int(weight * 10)) copies of each available node
RECURSIVE WeightedNodes(_, _)
WeightedNodes(available, k) ==
    IF k > Len(NodeOrder) THEN <<>>
    ELSE LET node == NodeOrder[k]
             copies == Max(1, (NodeWeight(node) * 10) \div Micro)
         IN (IF node \in available THEN [c \in 1..copies |-> node] ELSE <<>>)
            \o WeightedNodes(available, k + 1)

\* weighted_nodes[hash(request.service_id) % len(weighted_nodes)]
SelectNodeWeightedRoundRobin(req, available) ==
    LET weighted_nodes == WeightedNodes(available, 1)
    IN {weighted_nodes[(h % Len(weighted_nodes)) + 1] : h \in HashDraws}

\* the nodes _select_node_for_request may return; {} stands for None
SelectNodeForRequest(req) ==
    LET available == AvailableNodes
    IN IF available = {} THEN {}
       ELSE IF current_strategy = "weighted_round_robin"
            THEN SelectNodeWeightedRoundRobin(req, available)
       ELSE IF current_strategy = "least_connections"
            THEN SelectNodeLeastConnections(req, available)
       ELSE SelectNodeResourceAware(req, available)

\* ---- the floating-point arithmetic of _update_load_balance_index: a number
\* is m * 2^e with m = 0 or 2^(FloatBits-1) <= m < 2^FloatBits, and every
\* operation rounds its exact result to the nearest such number, ties to the
\* even significand

FloatZero == [m |-> 0, e |-> 0]

\* the least k >= from with n / 2^k below 2^FloatBits
RECURSIVE DropBits(_, _)
DropBits(n, from) ==
    IF n \div (2 ^ from) < 2 ^ FloatBits THEN from ELSE DropBits(n, from + 1)

\* the float nearest to the exact value n * 2^e
RECURSIVE RoundToFloat(_, _)
RoundToFloat(n, e) ==
    IF n = 0 THEN FloatZero
    ELSE IF n < 2 ^ (FloatBits - 1) THEN RoundToFloat(2 * n, e - 1)
    ELSE IF n < 2 ^ FloatBits THEN [m |-> n, e |-> e]
    ELSE LET k == DropBits(n, 1)
             q == n \div (2 ^ k)
             r == n % (2 ^ k)
             half == 2 ^ (k - 1)
             rounded == IF r > half \/ (r = half /\ q % 2 = 1)
                        THEN q + 1 ELSE q
         IN IF rounded = 2 ^ FloatBits
            THEN [m |-> 2 ^ (FloatBits - 1), e |-> e + k + 1]
            ELSE [m |-> rounded, e |-> e + k]

\* a + b
FloatAdd(a, b) ==
    IF a.m = 0 THEN b
    ELSE IF b.m = 0 THEN a
    ELSE LET e == Min(a.e, b.e)
         IN RoundToFloat(a.m * 2 ^ (a.e - e) + b.m * 2 ^ (b.e - e), e)

\* |a - b|, the magnitude of a - b
FloatAbsDiff(a, b) ==
    IF a.m = 0 THEN b
    ELSE IF b.m = 0 THEN a
    ELSE LET e == Min(a.e, b.e)
             x == a.m * 2 ^ (a.e - e)
             y == b.m * 2 ^ (b.e - e)
         IN RoundToFloat(IF x >= y THEN x - y ELSE y - x, e)

\* a * b
FloatMul(a, b) == RoundToFloat(a.m * b.m, a.e + b.e)

\* a / b for b # 0: the quotient to FloatBits + 3 bits and a sticky bit
FloatDiv(a, b) ==
    IF a.m = 0 THEN FloatZero
    ELSE LET guard == FloatBits + 3
             n == (a.m * 2 ^ guard) \div b.m
             exact == (a.m * 2 ^ guard) % b.m = 0
         IN IF exact THEN RoundToFloat(n, a.e - b.e - guard)
            ELSE RoundToFloat(2 * n + 1, a.e - b.e - guard - 1)

\* a ** 0.5: the root to FloatBits + 2 bits and a sticky bit
FloatSqrt(a) ==
    IF a.m = 0 THEN FloatZero
    ELSE LET guard == IF (a.e - (FloatBits + 3)) % 2 = 0
                      THEN FloatBits + 3 ELSE FloatBits + 4
             n == a.m * 2 ^ guard
             s == ISqrt(n)
             e == (a.e - guard) \div 2
         IN IF s * s = n THEN RoundToFloat(s, e)
            ELSE RoundToFloat(2 * s + 1, e - 1)

\* a < b
FloatLess(a, b) ==
    IF a.m = 0 THEN b.m # 0
    ELSE IF b.m = 0 THEN FALSE
    ELSE a.e < b.e \/ (a.e = b.e /\ a.m < b.m)

\* sum(f(loads[k..])) added to acc from left to right, as sum() does
RECURSIVE FloatSum(_, _, _)
FloatSum(terms, k, acc) ==
    IF k > Len(terms) THEN acc
    ELSE FloatSum(terms, k + 1, FloatAdd(acc, terms[k]))

\* _update_load_balance_index on floating-point loads: the index it stores
FloatLoadBalanceIndex(loads) ==
    LET cpu_values == [k \in 1..Len(NodeOrder) |-> loads[NodeOrder[k]]]
        one == RoundToFloat(1, 0)
        count == RoundToFloat(Len(NodeOrder), 0)
        mean_load == FloatDiv(FloatSum(cpu_values, 1, FloatZero), count)
        squares == [k \in 1..Len(NodeOrder) |->
                       LET d == FloatAbsDiff(cpu_values[k], mean_load)
                       IN FloatMul(d, d)]
        variance == FloatDiv(FloatSum(squares, 1, FloatZero), count)
        coefficient_of_variation == FloatDiv(FloatSqrt(variance), mean_load)
    IN IF \A n \in NodeId : loads[n].m = 0 THEN one
       ELSE IF mean_load.m = 0 THEN one
       ELSE FloatAbsDiff(one,
                         IF FloatLess(one, coefficient_of_variation)
                         THEN one ELSE coefficient_of_variation)

\* 1 - coefficient of variation, without the clamps
LoadBalanceIndexUnclamped(cpu) ==
    LET total == SumOver(cpu, NodeId)
        count == Cardinality(NodeId)
    IN IF total = 0 THEN Micro
       ELSE LET sq == [n \in NodeId |-> (count * cpu[n] - total) * (count * cpu[n] - total)]
                scaled_var == SumOver(sq, NodeId) \div count
                cv == (ISqrt(scaled_var * 10000) * 10000) \div total
            IN Micro - cv

\* 1 - min(1, coefficient of variation of the CPU loads), clamped at 0 (Micro)
LoadBalanceIndex(cpu) ==
    LET total == SumOver(cpu, NodeId)
        count == Cardinality(NodeId)
    IN IF \A n \in NodeId : cpu[n] = 0 THEN Micro
       ELSE IF total = 0 THEN Micro
       ELSE LET \* count^2 * variance = sum (count*load - total)^2 / count
                sq == [n \in NodeId |-> (count * cpu[n] - total) * (count * cpu[n] - total)]
                scaled_var == SumOver(sq, NodeId) \div count
                \* cv = sqrt(variance) / mean = sqrt(count^2 * variance) / total
                cv == (ISqrt(scaled_var * 10000) * 10000) \div total
            IN Max(0, Micro - Min(Micro, cv))

\* the loop of run_simulation is running: time.time() < simulation_end_time,
\* and no exception has left run_simulation
LoopRunning ==
    /\ now < StartTime + config.simulation_duration
    /\ loop_error = ""

\* an admission that writes the request's requirement over the chosen node's
\* counters and over the last allocation
AdmitRequestOverwriting(node, req) ==
    /\ cpu_distribution' =
         [cpu_distribution EXCEPT ![node] = req.cpu_requirement]
    /\ memory_distribution' =
         [memory_distribution EXCEPT ![node] = req.memory_requirement]
    /\ transaction_distribution' =
         [transaction_distribution EXCEPT ![node] = req.transaction_load]
    /\ total_services' = total_services + 1
    /\ service_allocations' =
         IF service_allocations = <<>> THEN <<node>>
         ELSE [service_allocations EXCEPT ![Len(service_allocations)] = node]
    /\ successful_requests' = successful_requests + 1
    /\ UNCHANGED failed_requests

\* _update_node_load and the allocation record of _process_service_request
AdmitRequest(node, req) ==
    /\ cpu_distribution' =
         [cpu_distribution EXCEPT ![node] = @ + req.cpu_requirement]
    /\ memory_distribution' =
         [memory_distribution EXCEPT ![node] = @ + req.memory_requirement]
    /\ transaction_distribution' =
         [transaction_distribution EXCEPT ![node] = @ + req.transaction_load]
    /\ total_services' = total_services + 1
    /\ service_allocations' = Append(service_allocations, node)
    /\ successful_requests' = successful_requests + 1
    /\ UNCHANGED failed_requests

\* a rejection that still counts the request as a placed service
RejectRequestCountingService ==
    /\ failed_requests' = failed_requests + 1
    /\ total_services' = total_services + 1
    /\ UNCHANGED <<cpu_distribution, memory_distribution,
                   transaction_distribution, service_allocations,
                   successful_requests>>

\* the early returns of _process_service_request: (False, 0.0)
RejectRequest ==
    /\ failed_requests' = failed_requests + 1
    /\ UNCHANGED <<cpu_distribution, memory_distribution,
                   transaction_distribution, total_services,
                   service_allocations, successful_requests>>

\* one request of the loop body: _process_service_request and the counters
\* run_simulation keeps of its result
ProcessServiceRequest ==
    /\ LoopRunning
    /\ successful_requests + failed_requests < workload.requests
    /\ \E req \in RequestDraws :
         LET selected == SelectNodeForRequest(req)
         IN IF selected = {}
            THEN RejectRequest
            ELSE \E node \in selected :
                   IF node \in failed_nodes
                   THEN RejectRequest
                   ELSE AdmitRequest(node, req)
    /\ UNCHANGED <<runVars, readerVars, loopVars, bridgeVars, floatVars, delayVars, now, state_current_time, active_nodes, failed_nodes,
                   migrations, load_balance_index, active_failures,
                   migration_history, current_strategy, injectorVars,
                   engineVars, managerVars>>

\* set_load_balancing_strategy
SetLoadBalancingStrategy ==
    /\ successful_requests + failed_requests = 0
    /\ \E s \in Strategies : s # current_strategy /\ current_strategy' = s
    /\ UNCHANGED <<runVars, readerVars, loopVars, bridgeVars, floatVars, delayVars, now, state_current_time, active_nodes, failed_nodes,
                   cpu_distribution, memory_distribution,
                   transaction_distribution, total_services, migrations,
                   load_balance_index, service_allocations, active_failures,
                   migration_history, successful_requests, failed_requests,
                   injectorVars, engineVars, managerVars>>

\* ------------------------------------------------------ failure_injection.py

\* FailureInjector.failure_profiles: failure_type
ProfileFailureType(n) ==
    CASE n = "EDGE1" -> "CRASH" [] n = "EDGE2" -> "OMISSION"
      [] n = "CORE1" -> "BYZANTINE" [] n = "CORE2" -> "CRASH"
      [] n = "CLOUD1" -> "OMISSION"

\* FailureInjector.failure_profiles: severity_range, its lower end (hundredths)
SeverityDraws(n) ==
    CASE n = "EDGE1" -> {80} [] n = "EDGE2" -> {30}
      [] n = "CORE1" -> {90} [] n = "CORE2" -> {70}
      [] n = "CLOUD1" -> {40}

\* a dependency table in which an edge failure reaches its own layer
DependentNodesWithEdges(n) ==
    CASE n = "CORE1" -> <<"EDGE1", "EDGE2">>
      [] n = "CORE2" -> <<"EDGE1", "EDGE2">>
      [] n = "CLOUD1" -> <<"CORE1", "CORE2">>
      [] n = "EDGE1" -> <<"EDGE2">>
      [] n = "EDGE2" -> <<"EDGE1">>

\* _get_dependent_nodes, in list order
DependentNodes(n) ==
    CASE n = "CORE1" -> <<"EDGE1", "EDGE2">>
      [] n = "CORE2" -> <<"EDGE1", "EDGE2">>
      [] n = "CLOUD1" -> <<"CORE1", "CORE2">>
      [] n = "EDGE1" -> <<>>
      [] n = "EDGE2" -> <<>>

FailureScenario(node, type, start, duration, severity) ==
    [node_id |-> node, failure_type |-> type, start_time |-> start,
     duration |-> duration, severity |-> severity, recovery_time |-> NoTime]

\* the outcomes of _should_inject_failure: random() < adjusted_prob, and the
\* probability is positive only when the node's last failure lies in the past
ShouldInjectFailure(n, current_time) ==
    IF current_time - last_failure_times[n] > 0 THEN {TRUE, FALSE} ELSE {FALSE}

\* the scenarios _create_failure_scenario may draw
CreateFailureScenario(n, current_time) ==
    {FailureScenario(n, ProfileFailureType(n), current_time, d, s) :
        d \in DurationDraws, s \in SeverityDraws(n)}

\* the primary loop of inject_failures over NodeOrder[i..]: every list of new
\* primary failures of at most `room` scenarios
RECURSIVE PrimaryFailures(_, _, _)
PrimaryFailures(i, current_time, room) ==
    IF i > Len(NodeOrder) THEN {<<>>}
    ELSE LET n == NodeOrder[i]
             skipped == PrimaryFailures(i + 1, current_time, room)
         IN IF n \in failed_nodes \/ room = 0
                \/ TRUE \notin ShouldInjectFailure(n, current_time)
            THEN skipped
            ELSE skipped \cup
                 {<<f>> \o rest :
                    f \in CreateFailureScenario(n, current_time),
                    rest \in PrimaryFailures(i + 1, current_time, room - 1)}

SeqNodes(failures) == {failures[i].node_id : i \in 1..Len(failures)}

\* the dependents of one cascading failure that get a secondary failure
CascadeTargets(failure, initial_failures) ==
    SelectSeq(DependentNodes(failure.node_id),
              LAMBDA d : d \notin failed_nodes /\ d \notin SeqNodes(initial_failures))

\* the secondary failures of one trigger, for the dependents targets[j..]
RECURSIVE CascadesOf(_, _, _, _)
CascadesOf(failure, targets, j, current_time) ==
    IF j > Len(targets) THEN {<<>>}
    ELSE {<<FailureScenario(targets[j], ProfileFailureType(targets[j]),
                            current_time + delay,
                            (failure.duration * 7) \div 10,
                            (failure.severity * 6) \div 10)>> \o rest :
            delay \in CascadeDelayDraws,
            rest \in CascadesOf(failure, targets, j + 1, current_time)}

\* _evaluate_cascading_failures over initial_failures[i..]: each failure
\* cascades or not (random() < 0.2)
RECURSIVE EvaluateCascadingFailures(_, _, _, _)
EvaluateCascadingFailures(initial_failures, i, current_time, room) ==
    IF i > Len(initial_failures) THEN {<<>>}
    ELSE LET failure == initial_failures[i]
             targets == CascadeTargets(failure, initial_failures)
             quiet == EvaluateCascadingFailures(initial_failures, i + 1,
                                                current_time, room)
         IN IF Len(targets) > room THEN quiet
            ELSE quiet \cup
                 {mine \o rest :
                    mine \in CascadesOf(failure, targets, 1, current_time),
                    rest \in EvaluateCascadingFailures(
                                initial_failures, i + 1, current_time,
                                room - Len(targets))}

\* the scenarios of one partition of `partitioned`, listed in node order (the
\* code lists them in shuffle order; scenarios of one partition are on
\* distinct nodes)
RECURSIVE PartitionScenarios(_, _, _, _)
PartitionScenarios(partitioned, i, current_time, duration) ==
    IF i > Len(NodeOrder) THEN <<>>
    ELSE LET n == NodeOrder[i]
             rest == PartitionScenarios(partitioned, i + 1, current_time, duration)
         IN IF n \in partitioned /\ n \notin failed_nodes
            THEN <<FailureScenario(n, "NETWORK_PARTITION", current_time,
                                   duration, 50)>> \o rest
            ELSE rest

\* _create_network_partition: the first 1..4 nodes of a shuffle, or no
\* partition at all (random() >= network_partition_probability / 3600)
CreateNetworkPartition(current_time, room) ==
    {<<>>} \cup
    {PartitionScenarios(partitioned, 1, current_time, duration) :
        partitioned \in {S \in SUBSET NodeId :
                           /\ S # {} /\ S # NodeId
                           /\ Cardinality(S \ failed_nodes) <= room},
        duration \in PartitionDurationDraws}

\* what one inject_failures call may return: the primary failures, then the
\* cascading ones, then the partition's
InjectFailures(current_time, room) ==
    UNION { UNION { { [primary |-> p, new_failures |-> p \o c \o q] :
                        q \in CreateNetworkPartition(
                                 current_time, room - Len(p) - Len(c)) } :
                    c \in (IF p = <<>> THEN {<<>>}
                           ELSE EvaluateCascadingFailures(
                                    p, 1, current_time, room - Len(p))) } :
            p \in PrimaryFailures(1, current_time, room) }

\* ----------------------------------------------------- adaptive_migration.py

\* AdaptiveMigrationEngine.migration_cooldown
MigrationCooldown == 30

\* AdaptiveMigrationEngine.max_concurrent_migrations
MaxConcurrentMigrations == 3

\* the rolling window of _update_performance_history
PerformanceWindow == 300

\* _update_performance_history: one (time, cpu load) sample per node, kept
\* here as one snapshot of all nodes; samples older than the window go
UpdatePerformanceHistory(history, current_time) ==
    SelectSeq(Append(history, [t |-> current_time, load |-> cpu_distribution]),
              LAMBDA h : h.t >= current_time - PerformanceWindow)

\* a node is overloaded when any load exceeds 80% of its capacity
IsOverloaded(n) ==
    \/ cpu_distribution[n] * 10 > CpuCapacity(n) * 8
    \/ memory_distribution[n] * 10 > MemCapacity(n) * 8
    \/ transaction_distribution[n] * 10 > TxCapacity(n) * 8

\* a node is underloaded when every load is below 50% of its capacity
IsUnderloaded(n) ==
    /\ cpu_distribution[n] * 10 < CpuCapacity(n) * 5
    /\ memory_distribution[n] * 10 < MemCapacity(n) * 5
    /\ transaction_distribution[n] * 10 < TxCapacity(n) * 5

IdentifyOverloadedNodes(active, failed) ==
    {n \in active : n \notin failed /\ IsOverloaded(n)}

\* the underloaded nodes taken over every node, whatever its state
IdentifyUnderloadedNodesAnyState(active, failed) ==
    {n \in NodeId : IsUnderloaded(n)}

IdentifyUnderloadedNodes(active, failed) ==
    {n \in active : n \notin failed /\ IsUnderloaded(n)}

\* _find_migratable_services without the cooldown test
FindMigratableServicesNoCooldown(node, allocations, lmt, in_migration, current_time) ==
    {i \in 1..Len(allocations) :
        /\ allocations[i] = node
        /\ i \notin in_migration}

\* _find_migratable_services: the services on the node that are neither in
\* their cooldown nor already being migrated
FindMigratableServices(node, allocations, lmt, in_migration, current_time) ==
    {i \in 1..Len(allocations) :
        /\ allocations[i] = node
        /\ ~(current_time - lmt[i] < MigrationCooldown)
        /\ i \notin in_migration}

\* _get_node_reliability_score (Micro)
NodeReliabilityScore(n) ==
    CASE n = "EDGE1" -> 900000 [] n = "EDGE2" -> 700000
      [] n = "CORE1" -> 600000 [] n = "CORE2" -> 800000
      [] n = "CLOUD1" -> 700000

NodeLayer(n) ==
    IF n \in {"EDGE1", "EDGE2"} THEN 0
    ELSE IF n \in {"CORE1", "CORE2"} THEN 1
    ELSE 2

\* _get_network_proximity_score (Micro)
NetworkProximityScore(source, destination) ==
    LET distance == IF NodeLayer(source) >= NodeLayer(destination)
                    THEN NodeLayer(source) - NodeLayer(destination)
                    ELSE NodeLayer(destination) - NodeLayer(source)
    IN IF distance = 0 THEN 1000000
       ELSE IF distance = 1 THEN 700000
       ELSE 400000

\* _calculate_destination_score (Micro)
DestinationScore(source, destination) ==
    LET performance_score == (Throughput(destination) * 1000) \div Latency(destination)
    IN (CapacityScore(destination) * 4 + performance_score * 3
        + NodeReliabilityScore(destination) * 2
        + NetworkProximityScore(source, destination)) \div 10

\* _find_best_destination: the nodes it may return ({} stands for None)
FindBestDestination(source, underloaded) ==
    LET others == underloaded \ {source}
    IN {d \in others :
          \A e \in others : DestinationScore(source, d) >= DestinationScore(source, e)}

\* a ratio num/den clamped to [0, 1] (Micro), den > 0
ClampedRatio(num, den) ==
    IF num <= 0 THEN 0
    ELSE IF num >= den THEN Micro
    ELSE (num * Micro) \div den

\* _calculate_load_trend_priority over the node's samples (Micro)
LoadTrendPriority(n, history) ==
    IF Len(history) < 2 THEN 0
    ELSE LET first == IF Len(history) > 10 THEN Len(history) - 9 ELSE 1
             count == Len(history) - first + 1
             rise == history[Len(history)].load[n] - history[first].load[n]
         IN ClampedRatio(rise, count * 10)

\* _calculate_migration_priority of a source node (Micro)
MigrationPriority(source, history) ==
    LET cpu_ratio == ClampedRatio(cpu_distribution[source] * 10 - CpuCapacity(source) * 8,
                                  CpuCapacity(source) * 2)
        memory_ratio == ClampedRatio(memory_distribution[source] * 10 - MemCapacity(source) * 8,
                                     MemCapacity(source) * 2)
        overload_priority == Max(cpu_ratio, memory_ratio)
    IN (overload_priority * 7 + LoadTrendPriority(source, history) * 3) \div 10

\* the services of the sources order[k..], in order
RECURSIVE ServicesInOrder(_, _, _)
ServicesInOrder(order, k, candidates) ==
    IF k > Len(order) THEN <<>>
    ELSE LET mine == candidates[order[k]]
             RECURSIVE Ascending(_)
             Ascending(S) ==
                IF S = {} THEN <<>>
                ELSE LET least == CHOOSE x \in S : \A y \in S : x <= y
                     IN <<least>> \o Ascending(S \ {least})
         IN Ascending(mine) \o ServicesInOrder(order, k + 1, candidates)

\* the orders in which sorted() may leave the decisions: by descending
\* priority, which is the same for all services of one source; sources of
\* equal priority keep the arbitrary iteration order of state.active_nodes
\* and the services of one source their allocation order
DecisionOrders(sources, history) ==
    {order \in [1..Cardinality(sources) -> sources] :
        /\ \A i, j \in DOMAIN order : i # j => order[i] # order[j]
        /\ \A i, j \in DOMAIN order :
             i < j => MigrationPriority(order[i], history)
                        >= MigrationPriority(order[j], history)}

MigrationEvent(service, source, destination, start, duration, success) ==
    [service_id |-> service, source_node |-> source,
     destination_node |-> destination, start_time |-> start,
     completion_time |-> IF success THEN start + duration ELSE NoTime,
     success |-> success]

\* a tracking that keeps only the service of the last executed decision
TrackLastExecutedMigration(in_migration, service, success) == {service}

\* what the engine's active set holds after one executed decision:
\* _execute_migration_decision discards a failed service, and
\* evaluate_migrations then adds the service of every returned event
TrackExecutedMigration(in_migration, service, success) ==
    LET after_execute == IF success THEN in_migration
                         ELSE in_migration \ {service}
    IN after_execute \cup {service}

\* the draws of one _execute_migration_decision for a service on `source`
ExecutionDraws(source, underloaded) ==
    {[success |-> b, destination_node |-> d, duration |-> m] :
        b \in BOOLEAN,
        d \in FindBestDestination(source, underloaded),
        m \in MigrationDurationDraws}

\* the execution loop of evaluate_migrations from the k-th decision on;
\* `done` holds the events made and the engine's tracking so far
RECURSIVE ExecuteMigrationDecisions(_, _, _, _, _)
ExecuteMigrationDecisions(queue, k, done, underloaded, current_time) ==
    IF k > Len(queue) \/ Len(done.events) >= MaxConcurrentMigrations
    THEN {done}
    ELSE LET service == queue[k]
             source == service_allocations[service]
         IN UNION {
              ExecuteMigrationDecisions(
                  queue, k + 1,
                  [events |-> Append(done.events,
                                     MigrationEvent(service, source,
                                                    draw.destination_node,
                                                    current_time, draw.duration,
                                                    draw.success)),
                   lmt |-> [done.lmt EXCEPT ![service] = current_time],
                   in_migration |-> TrackExecutedMigration(
                                        done.in_migration, service, draw.success),
                   history |-> done.history],
                  underloaded, current_time) :
              draw \in ExecutionDraws(source, underloaded) }

\* evaluate_migrations on the state the tick has reached: every outcome, as
\* the events returned and the engine's tracking afterwards
EvaluateMigrations(active, failed, current_time) ==
    LET unchanged == [events |-> <<>>, lmt |-> last_migration_times,
                      in_migration |-> active_migrations,
                      history |-> node_performance_history]
    IN IF Cardinality(active_migrations) >= MaxConcurrentMigrations
       THEN {unchanged}
       ELSE
         LET history == UpdatePerformanceHistory(node_performance_history,
                                                 current_time)
             sampled == [unchanged EXCEPT !.history = history]
             overloaded == IdentifyOverloadedNodes(active, failed)
             underloaded == IdentifyUnderloadedNodes(active, failed)
             candidates ==
                [src \in overloaded |->
                    IF FindBestDestination(src, underloaded) = {} THEN {}
                    ELSE FindMigratableServices(src, service_allocations,
                                                last_migration_times,
                                                active_migrations, current_time)]
             sources == {src \in overloaded : candidates[src] # {}}
         IN IF overloaded = {} \/ underloaded = {}
            THEN {sampled}
            ELSE UNION {
                   ExecuteMigrationDecisions(
                       ServicesInOrder(order, 1, candidates), 1, sampled,
                       underloaded, current_time) :
                   order \in DecisionOrders(sources, history) }

\* complete_migration
CompleteMigration ==
    /\ config.adaptive_migration_enabled
    /\ \E service \in active_migrations :
         active_migrations' = active_migrations \ {service}
    /\ UNCHANGED <<runVars, readerVars, loopVars, bridgeVars, floatVars, delayVars, simVars, injectorVars, last_migration_times,
                   node_performance_history, managerVars>>

\* --------------------------------------------------- redundancy_failover.py

\* RedundancyFailoverManager.high_risk_threshold (hundredths)
HighRiskThreshold == 70

\* RedundancyFailoverManager.critical_risk_threshold (hundredths)
CriticalRiskThreshold == 85

\* a strategy selection whose thresholds are exclusive
SelectRedundancyStrategyAbove(risk) ==
    IF risk.risk_score > CriticalRiskThreshold
    THEN (IF risk.failure_type = "BYZANTINE" THEN "n_way_replication"
          ELSE "active_active")
    ELSE IF risk.risk_score > HighRiskThreshold
    THEN (IF Cardinality(risk.dependent_nodes) > 2 THEN "active_active"
          ELSE "active_passive")
    ELSE IF risk.risk_score > 50 THEN "active_passive"
    ELSE "geographic_redundancy"

\* _select_redundancy_strategy
SelectRedundancyStrategy(risk) ==
    IF risk.risk_score >= CriticalRiskThreshold
    THEN (IF risk.failure_type = "BYZANTINE" THEN "n_way_replication"
          ELSE "active_active")
    ELSE IF risk.risk_score >= HighRiskThreshold
    THEN (IF Cardinality(risk.dependent_nodes) > 2 THEN "active_active"
          ELSE "active_passive")
    ELSE IF risk.risk_score >= 50 THEN "active_passive"
    ELSE "geographic_redundancy"

\* a replication factor of 3 for every node
ReplicationFactorTriple(risk) == 3

\* _create_replication_group_for_node: replication_factor
ReplicationFactor(risk) ==
    IF risk.risk_score >= CriticalRiskThreshold THEN 3
    ELSE IF risk.risk_score >= HighRiskThreshold THEN 2
    ELSE 1

\* _create_replication_group_for_node: consistency_level
ConsistencyLevel(risk) ==
    IF risk.failure_type = "BYZANTINE" THEN "strong"
    ELSE IF risk.failure_type = "OMISSION" THEN "causal"
    ELSE "eventual"

\* a replica selection that takes the primary for a candidate too
SelectReplicaNodesAnyNode(primary_node, primary_failure_type, count) ==
    {S \in SUBSET NodeId : Cardinality(S) = Min(count, Cardinality(NodeId))}

\* _select_replica_nodes: the sets random.sample may return
SelectReplicaNodes(primary_node, primary_failure_type, count) ==
    LET different == {n \in NodeId : /\ n # primary_node
                                      /\ ProfileFailureType(n) # primary_failure_type}
        candidates == IF Cardinality(different) < count
                      THEN NodeId \ {primary_node}
                      ELSE different
    IN {S \in SUBSET candidates :
          Cardinality(S) = Min(count, Cardinality(candidates))}

\* the position of the group with this id in the dict, 0 when absent
GroupPosition(groups, group_id) ==
    IF \E k \in 1..Len(groups) : groups[k].group_id = group_id
    THEN CHOOSE k \in 1..Len(groups) : groups[k].group_id = group_id
    ELSE 0

\* replication_groups[group_id] = group: a new key goes last, a known key
\* keeps its place
PutGroup(groups, group) ==
    LET k == GroupPosition(groups, group.group_id)
    IN IF k = 0 THEN Append(groups, group)
       ELSE [groups EXCEPT ![k] = group]

\* _create_replication_group_for_node: the groups it may store
CreateReplicationGroupForNode(risk, strategy) ==
    {[group_id |-> risk.node_id, primary_node |-> risk.node_id,
      replica_nodes |-> replicas, strategy |-> strategy,
      replication_factor |-> ReplicationFactor(risk),
      consistency_level |-> ConsistencyLevel(risk)] :
        replicas \in SelectReplicaNodes(risk.node_id, risk.failure_type,
                                        ReplicationFactor(risk))}

\* configure_redundancy_from_risk_assessment for a list of one assessment
ConfigureRedundancyFromRiskAssessment ==
    /\ \E risk \in workload.assessments :
         IF risk.risk_score >= HighRiskThreshold
         THEN \E group \in CreateReplicationGroupForNode(
                               risk, SelectRedundancyStrategy(risk)) :
                replication_groups' = PutGroup(replication_groups, group)
         ELSE UNCHANGED replication_groups
    /\ UNCHANGED <<runVars, readerVars, loopVars, bridgeVars, floatVars, delayVars, simVars, injectorVars, engineVars,
                   failover_history, failover_calls,
                   multi_node_failure_scenarios, network_partitions>>

\* a lookup that falls back on the first group when no group holds the node
FindReplicationGroupOrFirst(groups, node) ==
    LET holds(k) == \/ node = groups[k].primary_node
                    \/ node \in groups[k].replica_nodes
    IN IF \E k \in 1..Len(groups) : holds(k)
       THEN CHOOSE k \in 1..Len(groups) :
              holds(k) /\ \A j \in 1..(k - 1) : ~holds(j)
       ELSE Min(1, Len(groups))

\* _find_replication_group_for_node: the position of the first group that
\* holds the node, 0 for None
FindReplicationGroupForNode(groups, node) ==
    LET holds(k) == \/ node = groups[k].primary_node
                    \/ node \in groups[k].replica_nodes
    IN IF \E k \in 1..Len(groups) : holds(k)
       THEN CHOOSE k \in 1..Len(groups) :
              holds(k) /\ \A j \in 1..(k - 1) : ~holds(j)
       ELSE 0

\* _calculate_failover_target_score on state.node_metrics, which the
\* simulation leaves at the baseline (Micro)
FailoverTargetScore(n) ==
    LET cpu_score == Micro - (CpuCapacity(n) * Micro) \div 72
        memory_score == Micro - (MemCapacity(n) * Micro) \div 160
        latency_score == Micro - (Latency(n) * Micro) \div 22
        throughput_score == (Throughput(n) * Micro) \div 1250
    IN (cpu_score * 3 + memory_score * 3 + latency_score * 2
        + throughput_score * 2) \div 10

\* _select_failover_target: the nodes it may return ({} stands for None)
SelectFailoverTarget(group, failed) ==
    LET available_replicas == group.replica_nodes \ failed
    IN {r \in available_replicas :
          \A q \in available_replicas :
             FailoverTargetScore(r) >= FailoverTargetScore(q)}

\* _execute_failover: the upper end of the downtime range of the strategy
DowntimeDraws(strategy) ==
    CASE strategy = "active_active" -> {2}
      [] strategy = "active_passive" -> {10}
      [] strategy = "n_way_replication" -> {15}
      [] strategy = "geographic_redundancy" -> {30}

\* _migrate_services_during_failover: the services it moves, in dict order
ServicesOn(allocations, node) ==
    SelectSeq([k \in 1..Len(allocations) |-> k],
              LAMBDA k : allocations[k] = node)

\* the allocations _migrate_services_during_failover leaves
MigrateServicesDuringFailover(allocations, failed_node, failover_node) ==
    [k \in 1..Len(allocations) |->
        IF allocations[k] = failed_node THEN failover_node ELSE allocations[k]]

\* a promotion that leaves the promoted node among the replicas
UpdateReplicationGroupKeepingReplica(group, failed_node, failover_node) ==
    IF failed_node = group.primary_node
    THEN [group EXCEPT !.primary_node = failover_node,
                       !.replica_nodes = @ \cup {failed_node}]
    ELSE group

\* _update_replication_group_after_failover
UpdateReplicationGroupAfterFailover(group, failed_node, failover_node) ==
    IF failed_node = group.primary_node
    THEN [group EXCEPT !.primary_node = failover_node,
                       !.replica_nodes = (@ \ {failover_node}) \cup {failed_node}]
    ELSE group

\* implement_automated_failover(failed_node, state): what one call may leave
\* of the allocations and the groups, and the event it returns (<<>> stands
\* for None)
AutomatedFailover(failed_node, allocations, groups, failed, current_time) ==
    LET k == FindReplicationGroupForNode(groups, failed_node)
    IN IF k = 0 \/ SelectFailoverTarget(groups[k], failed) = {}
       THEN {[allocations |-> allocations, groups |-> groups, events |-> <<>>]}
       ELSE {[allocations |->
                MigrateServicesDuringFailover(allocations, failed_node,
                                              failover_node),
              groups |->
                IF success
                THEN [groups EXCEPT ![k] =
                        UpdateReplicationGroupAfterFailover(
                            @, failed_node, failover_node)]
                ELSE groups,
              events |->
                <<[failed_node |-> failed_node,
                   failover_node |-> failover_node,
                   start_time |-> current_time,
                   completion_time |-> current_time + downtime,
                   success |-> success,
                   services_migrated |-> ServicesOn(allocations, failed_node),
                   downtime_seconds |-> downtime]>>] :
                failover_node \in SelectFailoverTarget(groups[k], failed),
                success \in BOOLEAN,
                downtime \in DowntimeDraws(groups[k].strategy)}

\* one call's entry in the record of calls
FailoverCall(failed_node, events) ==
    [failed_node |-> failed_node, returned |-> events # <<>>]

\* a failover that moves the failed node's load counters to the failover node
\* along with its services
ImplementAutomatedFailoverMovingLoad ==
    /\ Len(failover_calls) < workload.failovers
    /\ \E failed_node \in failed_nodes :
         \E outcome \in AutomatedFailover(failed_node, service_allocations,
                                          replication_groups, failed_nodes,
                                          now) :
            LET moved(counters) ==
                  IF outcome.events = <<>> THEN counters
                  ELSE [n \in NodeId |->
                          IF n = failed_node THEN 0
                          ELSE IF n = outcome.events[1].failover_node
                          THEN counters[n] + counters[failed_node]
                          ELSE counters[n]]
            IN /\ service_allocations' = outcome.allocations
               /\ replication_groups' = outcome.groups
               /\ failover_history' = failover_history \o outcome.events
               /\ failover_calls' =
                    Append(failover_calls,
                           FailoverCall(failed_node, outcome.events))
               /\ cpu_distribution' = moved(cpu_distribution)
               /\ memory_distribution' = moved(memory_distribution)
               /\ transaction_distribution' = moved(transaction_distribution)
    /\ UNCHANGED <<runVars, readerVars, loopVars, bridgeVars, floatVars, delayVars, now, state_current_time, active_nodes,
                   failed_nodes, total_services, migrations,
                   load_balance_index, active_failures, migration_history,
                   current_strategy, successful_requests, failed_requests,
                   injectorVars, engineVars, multi_node_failure_scenarios,
                   network_partitions>>

\* implement_automated_failover(failed_node, state) on the simulation's
\* live state (get_current_state), called as redundancy_demo.py calls it:
\* for a node that state.failed_nodes holds
ImplementAutomatedFailover ==
    /\ Len(failover_calls) < workload.failovers
    /\ \E failed_node \in failed_nodes :
         \E outcome \in AutomatedFailover(failed_node, service_allocations,
                                          replication_groups, failed_nodes,
                                          now) :
            /\ service_allocations' = outcome.allocations
            /\ replication_groups' = outcome.groups
            /\ failover_history' = failover_history \o outcome.events
            /\ failover_calls' =
                 Append(failover_calls,
                        FailoverCall(failed_node, outcome.events))
    /\ UNCHANGED <<runVars, readerVars, loopVars, bridgeVars, floatVars, delayVars, now, state_current_time, active_nodes,
                   failed_nodes, cpu_distribution, memory_distribution,
                   transaction_distribution, total_services, migrations,
                   load_balance_index, active_failures, migration_history,
                   current_strategy, successful_requests, failed_requests,
                   injectorVars, engineVars, multi_node_failure_scenarios,
                   network_partitions>>

\* a failure map that takes every failure for a crash
NodeFailureMapAllCrash(n) == "CRASH"

\* simulate_multi_node_failure: node_failure_map
NodeFailureMap(n) ==
    CASE n = "EDGE1" -> "CRASH" [] n = "EDGE2" -> "OMISSION"
      [] n = "CORE1" -> "BYZANTINE" [] n = "CORE2" -> "CRASH"
      [] n = "CLOUD1" -> "OMISSION"

\* draws of random.uniform(30.0, 300.0), a multi-node failure's duration
MultiNodeDurationDraws == {30}

\* draws of random.uniform(60.0, 300.0), a manager partition's duration
ManagerPartitionDurationDraws == {60}

\* the node_count arguments of simulate_multi_node_failure
NodeCountDraws == {3}

\* the loop of _create_network_partition_groups over a shuffle of `nodes`:
\* the first groups take `size` nodes each, the last one takes the rest
RECURSIVE SplitShuffled(_, _, _)
SplitShuffled(nodes, groups_left, size) ==
    IF groups_left = 1 THEN {<<nodes>>}
    ELSE UNION {{<<group>> \o rest :
                    rest \in SplitShuffled(nodes \ group, groups_left - 1, size)} :
                group \in {S \in SUBSET nodes : Cardinality(S) = size}}

\* _create_network_partition_groups: the lists of groups it may return
CreateNetworkPartitionGroups(all_nodes, failed) ==
    LET available_nodes == all_nodes \ failed
        count == Cardinality(available_nodes)
    IN IF count < 2 THEN {<<available_nodes>>}
       ELSE UNION {{SelectSeq(partitions, LAMBDA p : p # {}) :
                       partitions \in SplitShuffled(
                                          available_nodes, num_partitions,
                                          count \div num_partitions)} :
                   num_partitions \in 2..Min(3, count)}

MultiNodeFailureScenario(failed, types, start, duration, partition, groups) ==
    [failed_nodes |-> failed, failure_types |-> types, start_time |-> start,
     duration |-> duration, is_network_partition |-> partition,
     partition_groups |-> groups]

\* simulate_multi_node_failure: the scenarios it may create
MultiNodeFailureScenarios(node_count, active, failed, include_network_partition, current_time) ==
    LET available_nodes == active \ failed
        failed_count == Min(node_count, Cardinality(available_nodes))
    IN UNION {{MultiNodeFailureScenario(
                   sample, [n \in sample |-> NodeFailureMap(n)], current_time,
                   duration, include_network_partition, groups) :
                 duration \in MultiNodeDurationDraws,
                 groups \in (IF include_network_partition
                             THEN CreateNetworkPartitionGroups(active, sample)
                             ELSE {<<>>})} :
              sample \in {S \in SUBSET available_nodes :
                            Cardinality(S) = failed_count}}

\* simulate_multi_node_failure(node_count, state, include_network_partition)
SimulateMultiNodeFailure ==
    /\ Len(multi_node_failure_scenarios) < workload.scenarios
    /\ \E node_count \in NodeCountDraws, include_network_partition \in BOOLEAN :
         \E scenario \in MultiNodeFailureScenarios(
                             node_count, active_nodes, failed_nodes,
                             include_network_partition, now) :
            multi_node_failure_scenarios' =
                Append(multi_node_failure_scenarios, scenario)
    /\ UNCHANGED <<runVars, readerVars, loopVars, bridgeVars, floatVars, delayVars, simVars, injectorVars, engineVars,
                   replication_groups, failover_history, failover_calls,
                   network_partitions>>

\* the first group of the list taken for the majority
FirstPartition(partition_groups) == partition_groups[1]

\* max(partition_groups, key=len): the first group of the largest size
MajorityPartition(partition_groups) ==
    partition_groups[
        CHOOSE k \in 1..Len(partition_groups) :
           /\ \A j \in 1..Len(partition_groups) :
                 Cardinality(partition_groups[j]) <= Cardinality(partition_groups[k])
           /\ \A j \in 1..(k - 1) :
                 Cardinality(partition_groups[j]) < Cardinality(partition_groups[k])]

\* simulate_network_partition: the scenarios it may create
NetworkPartitionScenarios(all_nodes, current_time) ==
    {MultiNodeFailureScenario(
         all_nodes \ MajorityPartition(partition_groups),
         [n \in all_nodes \ MajorityPartition(partition_groups) |->
             "NETWORK_PARTITION"],
         current_time, duration, TRUE, partition_groups) :
       partition_groups \in CreateNetworkPartitionGroups(all_nodes, {}),
       duration \in ManagerPartitionDurationDraws}

\* simulate_network_partition(state)
SimulateNetworkPartition ==
    /\ Len(multi_node_failure_scenarios) < workload.scenarios
    /\ \E scenario \in NetworkPartitionScenarios(active_nodes, now) :
         /\ multi_node_failure_scenarios' =
              Append(multi_node_failure_scenarios, scenario)
         /\ network_partitions' =
              Append(network_partitions,
                     [time |-> now, groups |-> scenario.partition_groups])
    /\ UNCHANGED <<runVars, readerVars, loopVars, bridgeVars, floatVars, delayVars, simVars, injectorVars, engineVars,
                   replication_groups, failover_history, failover_calls>>

\* criticality scores that put the edge nodes first
CriticalityScoreEdgesFirst(n) ==
    CASE n = "CORE1" -> 65 [] n = "CORE2" -> 70 [] n = "CLOUD1" -> 75
      [] n = "EDGE1" -> 90 [] n = "EDGE2" -> 95

\* _prioritize_failure_recovery: criticality_scores (hundredths)
CriticalityScore(n) ==
    CASE n = "CORE1" -> 95 [] n = "CORE2" -> 90 [] n = "CLOUD1" -> 75
      [] n = "EDGE1" -> 70 [] n = "EDGE2" -> 65

\* _prioritize_failure_recovery: the nodes sorted by criticality, highest
\* first
RECURSIVE PrioritizeFailureRecovery(_)
PrioritizeFailureRecovery(failed) ==
    IF failed = {} THEN <<>>
    ELSE LET first == CHOOSE n \in failed :
                         \A m \in failed : CriticalityScore(m) <= CriticalityScore(n)
         IN <<first>> \o PrioritizeFailureRecovery(failed \ {first})

\* the loop of handle_multi_node_failure_recovery over sorted_failures[i..]:
\* one implement_automated_failover call per node, each on the state the
\* one before left
RECURSIVE RecoverInOrder(_, _, _, _, _)
RecoverInOrder(sorted_failures, i, seen, failed, current_time) ==
    IF i > Len(sorted_failures) THEN {seen}
    ELSE UNION {RecoverInOrder(
                    sorted_failures, i + 1,
                    [allocations |-> outcome.allocations,
                     groups |-> outcome.groups,
                     events |-> seen.events \o outcome.events,
                     calls |-> Append(seen.calls,
                                      FailoverCall(sorted_failures[i],
                                                   outcome.events))],
                    failed, current_time) :
                outcome \in AutomatedFailover(sorted_failures[i],
                                              seen.allocations, seen.groups,
                                              failed, current_time)}

\* _handle_partition_recovery: the partition of the scenario is dropped
HandlePartitionRecovery(partitions, scenario) ==
    SelectSeq(partitions, LAMBDA p : p.time # scenario.start_time)

\* handle_multi_node_failure_recovery(scenario, state) for a scenario the
\* manager has created
HandleMultiNodeFailureRecovery ==
    \E s \in 1..Len(multi_node_failure_scenarios) :
       LET scenario == multi_node_failure_scenarios[s]
       IN /\ Len(failover_calls) + Cardinality(scenario.failed_nodes)
               <= workload.failovers
          /\ \E recovered \in RecoverInOrder(
                  PrioritizeFailureRecovery(scenario.failed_nodes), 1,
                  [allocations |-> service_allocations,
                   groups |-> replication_groups,
                   events |-> <<>>, calls |-> <<>>],
                  failed_nodes, now) :
               /\ service_allocations' = recovered.allocations
               /\ replication_groups' = recovered.groups
               /\ failover_history' = failover_history \o recovered.events
               /\ failover_calls' = failover_calls \o recovered.calls
          /\ network_partitions' =
               IF scenario.is_network_partition
               THEN HandlePartitionRecovery(network_partitions, scenario)
               ELSE network_partitions
          /\ UNCHANGED <<runVars, readerVars, loopVars, bridgeVars, floatVars, delayVars, now, state_current_time, active_nodes,
                         failed_nodes, cpu_distribution, memory_distribution,
                         transaction_distribution, total_services, migrations,
                         load_balance_index, active_failures,
                         migration_history, current_strategy,
                         successful_requests, failed_requests, injectorVars,
                         engineVars, multi_node_failure_scenarios>>

\* state.failed_nodes.add(node) by the caller, as the demo and the tests do
\* before they ask for a failover
MarkNodeFailed ==
    /\ Cardinality(failed_nodes) < workload.marks
    /\ \E node \in NodeId \ failed_nodes :
         failed_nodes' = failed_nodes \cup {node}
    /\ UNCHANGED <<runVars, readerVars, loopVars, bridgeVars, floatVars, delayVars, now, state_current_time, active_nodes,
                   cpu_distribution, memory_distribution,
                   transaction_distribution, total_services, migrations,
                   load_balance_index, service_allocations, active_failures,
                   migration_history, current_strategy, successful_requests,
                   failed_requests, injectorVars, engineVars, managerVars>>

\* for node in scenario.failed_nodes: state.failed_nodes.add(node), as the
\* demo and the tests do before they ask for the recovery
MarkScenarioNodesFailed ==
    /\ \E s \in 1..Len(multi_node_failure_scenarios) :
         /\ ~(multi_node_failure_scenarios[s].failed_nodes \subseteq failed_nodes)
         /\ failed_nodes' =
              failed_nodes \cup multi_node_failure_scenarios[s].failed_nodes
    /\ UNCHANGED <<runVars, readerVars, loopVars, bridgeVars, floatVars, delayVars, now, state_current_time, active_nodes,
                   cpu_distribution, memory_distribution,
                   transaction_distribution, total_services, migrations,
                   load_balance_index, service_allocations, active_failures,
                   migration_history, current_strategy, successful_requests,
                   failed_requests, injectorVars, engineVars, managerVars>>

\* --------------------------------------------------------- the tick loop

\* one scenario of the failed-node loop of _update_system_state keeps the
\* node in active_nodes when it fails
ApplyFailureKeepingActive(failure, seen, current_time) ==
    IF failure.start_time <= current_time
       /\ current_time <= failure.start_time + failure.duration
    THEN [failure |-> failure,
          failed |-> seen.failed \cup {failure.node_id},
          active |-> seen.active]
    ELSE IF current_time > failure.start_time + failure.duration
            /\ failure.node_id \in seen.failed
    THEN [failure |-> [failure EXCEPT !.recovery_time = current_time],
          failed |-> seen.failed \ {failure.node_id},
          active |-> seen.active \cup {failure.node_id}]
    ELSE [failure |-> failure, failed |-> seen.failed, active |-> seen.active]

\* one scenario of a failed-node loop that has no recovery branch
ApplyFailureWithoutRecovery(failure, seen, current_time) ==
    IF failure.start_time <= current_time
       /\ current_time <= failure.start_time + failure.duration
    THEN [failure |-> failure,
          failed |-> seen.failed \cup {failure.node_id},
          active |-> seen.active \ {failure.node_id}]
    ELSE [failure |-> failure, failed |-> seen.failed, active |-> seen.active]

\* one scenario of the failed-node loop of _update_system_state
ApplyFailure(failure, seen, current_time) ==
    IF failure.start_time <= current_time
       /\ current_time <= failure.start_time + failure.duration
    THEN [failure |-> failure,
          failed |-> seen.failed \cup {failure.node_id},
          active |-> seen.active \ {failure.node_id}]
    ELSE IF current_time > failure.start_time + failure.duration
            /\ failure.node_id \in seen.failed
    THEN [failure |-> [failure EXCEPT !.recovery_time = current_time],
          failed |-> seen.failed \ {failure.node_id},
          active |-> seen.active \cup {failure.node_id}]
    ELSE [failure |-> failure, failed |-> seen.failed, active |-> seen.active]

\* the failed-node loop of _update_system_state over failures[i..]
RECURSIVE UpdateFailedNodes(_, _, _, _)
UpdateFailedNodes(failures, i, seen, current_time) ==
    IF i > Len(failures) THEN seen
    ELSE LET step == ApplyFailure(failures[i], seen, current_time)
         IN UpdateFailedNodes(
                failures, i + 1,
                [failures |-> Append(seen.failures, step.failure),
                 failed |-> step.failed, active |-> step.active],
                current_time)

\* the allocation a successful migration leaves alone
ApplyMigrationNowhere(allocations, event) == allocations

\* the allocation after one returned migration event
ApplyMigration(allocations, event) ==
    IF event.success
    THEN [allocations EXCEPT ![event.service_id] = event.destination_node]
    ELSE allocations

RECURSIVE ApplyMigrations(_, _, _)
ApplyMigrations(allocations, events, k) ==
    IF k > Len(events) THEN allocations
    ELSE ApplyMigrations(ApplyMigration(allocations, events[k]), events, k + 1)

SuccessCount(events) ==
    Cardinality({k \in 1..Len(events) : events[k].success})

\* the hand-over of one loop iteration: _update_system_state(current_time)
\* with every call it makes, then the sleep that advances the clock
Tick ==
    /\ LoopRunning
    /\ \E injected \in
            (IF config.failure_injection_enabled
             THEN InjectFailures(now, workload.failures - Len(active_failures))
             ELSE {[primary |-> <<>>, new_failures |-> <<>>]}) :
         LET extended == active_failures \o injected.new_failures
             seen == IF config.failure_injection_enabled
                     THEN UpdateFailedNodes(
                              extended, 1,
                              [failures |-> <<>>, failed |-> failed_nodes,
                               active |-> active_nodes], now)
                     ELSE [failures |-> active_failures,
                           failed |-> failed_nodes, active |-> active_nodes]
         IN /\ active_failures' = seen.failures
            /\ failed_nodes' = seen.failed
            /\ active_nodes' = seen.active
            /\ failure_history' = failure_history \o injected.primary
            /\ last_failure_times' =
                 [n \in NodeId |->
                    IF n \in SeqNodes(injected.primary) THEN now
                    ELSE last_failure_times[n]]
            /\ \E outcome \in
                    (IF config.adaptive_migration_enabled
                     THEN EvaluateMigrations(seen.active, seen.failed, now)
                     ELSE {[events |-> <<>>, lmt |-> last_migration_times,
                            in_migration |-> active_migrations,
                            history |-> node_performance_history]}) :
                 /\ migration_history' = migration_history \o outcome.events
                 /\ service_allocations' =
                      ApplyMigrations(service_allocations, outcome.events, 1)
                 /\ migrations' = migrations + SuccessCount(outcome.events)
                 /\ last_migration_times' = outcome.lmt
                 /\ active_migrations' = outcome.in_migration
                 /\ node_performance_history' = outcome.history
    /\ load_balance_index' = LoadBalanceIndex(cpu_distribution)
    /\ state_current_time' = now
    /\ now' = now + TimeStep
    /\ UNCHANGED <<runVars, readerVars, loopVars, bridgeVars, floatVars, delayVars, cpu_distribution, memory_distribution,
                   transaction_distribution, total_services, current_strategy,
                   successful_requests, failed_requests, managerVars>>

\* the policy modules of the run that _update_system_state calls
PolicyModules ==
    (IF config.failure_injection_enabled THEN {"failure_injector"} ELSE {})
    \cup (IF config.adaptive_migration_enabled
          THEN {"adaptive_migration_engine"} ELSE {})

\* a loop iteration in which a policy module raises at its entry: neither
\* _update_system_state nor run_simulation has a handler, so the exception
\* leaves run_simulation; what _update_system_state did before the call stays
TickRaising ==
    /\ LoopRunning
    /\ \E module \in PolicyModules :
         /\ loop_error' = module
         /\ IF module = "adaptive_migration_engine"
               /\ config.failure_injection_enabled
            THEN \E injected \in
                     InjectFailures(now, workload.failures - Len(active_failures)) :
                   LET seen == UpdateFailedNodes(
                                   active_failures \o injected.new_failures, 1,
                                   [failures |-> <<>>, failed |-> failed_nodes,
                                    active |-> active_nodes], now)
                   IN /\ active_failures' = seen.failures
                      /\ failed_nodes' = seen.failed
                      /\ active_nodes' = seen.active
                      /\ failure_history' = failure_history \o injected.primary
                      /\ last_failure_times' =
                           [n \in NodeId |->
                              IF n \in SeqNodes(injected.primary) THEN now
                              ELSE last_failure_times[n]]
            ELSE UNCHANGED <<active_failures, failed_nodes, active_nodes,
                             injectorVars>>
    /\ state_current_time' = now
    /\ UNCHANGED <<runVars, readerVars, bridgeVars, floatVars, delayVars, now,
                   cpu_distribution,
                   memory_distribution, transaction_distribution,
                   total_services, migrations, load_balance_index,
                   service_allocations, migration_history, current_strategy,
                   successful_requests, failed_requests, engineVars,
                   managerVars>>

\* the failure the demo injects by hand: inject_specific_failure arguments
SpecificFailureDraws ==
    {[node_id |-> "EDGE1", failure_type |-> "CRASH", duration |-> 10,
      severity |-> 80]}

\* the scenarios of failure_history that inject_failures did not hand to the
\* simulation: those made by inject_specific_failure
SpecificFailures ==
    SelectSeq(failure_history,
              LAMBDA f : ~\E k \in 1..Len(active_failures) :
                            /\ active_failures[k].node_id = f.node_id
                            /\ active_failures[k].start_time = f.start_time
                            /\ active_failures[k].failure_type = f.failure_type)

\* inject_specific_failure on the simulation's failure injector, with
\* start_time the current time
InjectSpecificFailure ==
    /\ config.failure_injection_enabled
    /\ Len(SpecificFailures) < MaxSpecificFailures
    /\ \E args \in SpecificFailureDraws :
         /\ failure_history' =
              Append(failure_history,
                     FailureScenario(args.node_id, args.failure_type, now,
                                     args.duration, args.severity))
         /\ last_failure_times' =
              [last_failure_times EXCEPT ![args.node_id] = now]
    /\ UNCHANGED <<runVars, readerVars, loopVars, bridgeVars, floatVars, delayVars, simVars, engineVars, managerVars>>

\* ------------------------------------------------------- specifications

\* the node sets a caller assigns to the state directly
OutageDraws == {{}, {"CORE1", "CORE2", "CLOUD1"}, NodeId}

\* state.failed_nodes and state.active_nodes assigned by the caller, as the
\* test of a total outage does
AssignFailedNodes ==
    /\ \E failed \in OutageDraws :
         /\ failed # failed_nodes
         /\ failed_nodes' = failed
         /\ active_nodes' = NodeId \ failed
    /\ UNCHANGED <<runVars, readerVars, loopVars, bridgeVars, floatVars, delayVars, now, state_current_time, cpu_distribution,
                   memory_distribution, transaction_distribution,
                   total_services, migrations, load_balance_index,
                   service_allocations, active_failures, migration_history,
                   current_strategy, successful_requests, failed_requests,
                   injectorVars, engineVars, managerVars>>

\* ------------------------------------------------ network_delay_simulator.py
\* delays are in microseconds, packet loss rates in millionths

\* _get_topology_adjustment, in tenths
GetTopologyAdjustment(source, destination) ==
    LET edge_nodes == {"EDGE1", "EDGE2"}
        core_nodes == {"CORE1", "CORE2"}
        cloud_nodes == {"CLOUD1"}
        layer(n) == IF n \in edge_nodes THEN "edge"
                    ELSE IF n \in core_nodes THEN "core" ELSE "cloud"
    IN IF layer(source) = layer(destination) THEN 8
       ELSE IF \/ source \in edge_nodes /\ destination \in core_nodes
               \/ source \in core_nodes /\ destination \in edge_nodes
       THEN 10
       ELSE IF \/ source \in core_nodes /\ destination \in cloud_nodes
               \/ source \in cloud_nodes /\ destination \in core_nodes
       THEN 12
       ELSE IF \/ source \in edge_nodes /\ destination \in cloud_nodes
               \/ source \in cloud_nodes /\ destination \in edge_nodes
       THEN 15
       ELSE 10

\* _get_baseline_packet_loss: min(0.05, (1 - rs * rd) * 0.1 * adjustment)
GetBaselinePacketLoss(source, destination) ==
    LET node_reliability(n) ==
            CASE n = "EDGE1" -> 99 [] n = "EDGE2" -> 97 [] n = "CORE1" -> 95
              [] n = "CORE2" -> 98 [] n = "CLOUD1" -> 96
        unreliability ==
            10000 - node_reliability(source) * node_reliability(destination)
    IN Min(50000, unreliability * GetTopologyAdjustment(source, destination))

\* _initialize_baseline_delays: 0.1 ms, 0.05 ms jitter and 0.0001 loss on a
\* node itself; otherwise the mean of the two node latencies times the
\* topology adjustment, a tenth of it as jitter
InitializeBaselineDelays ==
    [key \in NodeId \X NodeId |->
        IF key[1] = key[2]
        THEN [base_delay |-> 100, jitter |-> 50, packet_loss_rate |-> 100]
        ELSE LET base_delay == (Latency(key[1]) + Latency(key[2])) * 50
                                  * GetTopologyAdjustment(key[1], key[2])
             IN [base_delay |-> base_delay, jitter |-> base_delay \div 10,
                 packet_loss_rate |-> GetBaselinePacketLoss(key[1], key[2])]]

\* the loop of _apply_network_conditions over conditions[k..]: the values
\* adjusted_delay may end with, the additional jitter of each active
\* condition being drawn from its range
RECURSIVE AdjustedDelays(_, _, _, _)
AdjustedDelays(adjusted_delay, conditions, k, current_time) ==
    IF k > Len(conditions) THEN {adjusted_delay}
    ELSE LET condition == conditions[k]
         IN IF /\ condition.start_time <= current_time
               /\ current_time <= condition.start_time + condition.duration
            THEN LET congested ==
                         adjusted_delay
                           + (adjusted_delay \div 100) * condition.congestion_level
                           + ((adjusted_delay % 100) * condition.congestion_level)
                               \div 100
                 IN UNION {AdjustedDelays(
                               congested
                                 + draw * 2000 * condition.jitter_multiplier,
                               conditions, k + 1, current_time)
                           : draw \in {-1, 0, 1}}
            ELSE AdjustedDelays(adjusted_delay, conditions, k + 1,
                                current_time)

\* _apply_network_conditions without its last line's minimum
ApplyNetworkConditionsUnfloored(base_delay, current_time) ==
    AdjustedDelays(base_delay, current_conditions, 1, current_time)

\* _apply_network_conditions: max(0.001, adjusted_delay)
ApplyNetworkConditions(base_delay, current_time) ==
    {Max(1000, adjusted_delay) :
        adjusted_delay \in
            AdjustedDelays(base_delay, current_conditions, 1, current_time)}

\* the delays get_delay_to_node may return; source "None" is the default
DelaysToNode(destination, source, current_time) ==
    LET key == <<IF source = "None" THEN "EDGE1" ELSE source, destination>>
    IN IF key \notin DOMAIN baseline_delays THEN {10000}
       ELSE LET delay_config == baseline_delays[key]
                current_delays ==
                    {Max(1000, delay_config.base_delay
                                 + draw * delay_config.jitter)
                     : draw \in {-1, 0, 1}}
                applied ==
                    UNION {ApplyNetworkConditions(d, current_time)
                           : d \in current_delays}
            IN applied
                 \cup (IF delay_config.packet_loss_rate > 0
                       THEN {d + 50000 : d \in applied} ELSE {})

\* get_delay_to_node
GetDelayToNode ==
    /\ Len(delay_history) < MaxDelayReads
    /\ \E destination \in NodeId, source \in NodeId \cup {"None"} :
         \E delay \in DelaysToNode(destination, source, now) :
            delay_history' =
                Append(delay_history,
                       [source |-> IF source = "None" THEN "EDGE1"
                                   ELSE source,
                        destination |-> destination, delay |-> delay])
    /\ UNCHANGED <<runVars, readerVars, loopVars, bridgeVars, floatVars,
                   baseline_delays, current_conditions, simulated_partitions,
                   simVars, injectorVars, engineVars, managerVars>>

\* inject_network_condition: congestion in hundredths
InjectNetworkCondition ==
    /\ Len(current_conditions) < MaxNetworkConditions
    /\ \E congestion_level \in {0, 100}, duration \in {5, 20},
          jitter_multiplier \in {1, 10} :
         current_conditions' =
             Append(current_conditions,
                    [congestion_level |-> congestion_level,
                     packet_loss_rate |-> 0,
                     jitter_multiplier |-> jitter_multiplier,
                     start_time |-> now, duration |-> duration])
    /\ UNCHANGED <<runVars, readerVars, loopVars, bridgeVars, floatVars,
                   baseline_delays, delay_history, simulated_partitions,
                   simVars, injectorVars, engineVars, managerVars>>

\* a partition that cuts the partitioned nodes off in both directions
DelaySimulateNetworkPartitionBothWays ==
    /\ Len(simulated_partitions) < MaxPartitionCalls
    /\ \E partitioned_nodes \in
              {<<"EDGE1">>, <<"EDGE2">>, <<"CORE1", "CORE2">>,
               <<"CLOUD1", "EDGE2", "CORE2">>} :
         LET partitioned == {partitioned_nodes[i] :
                                i \in 1..Len(partitioned_nodes)}
         IN /\ baseline_delays' =
                 [key \in DOMAIN baseline_delays |->
                     IF (key[1] \in partitioned) # (key[2] \in partitioned)
                     THEN [baseline_delays[key] EXCEPT
                              !.base_delay = @ * 100,
                              !.packet_loss_rate = 900000]
                     ELSE baseline_delays[key]]
            /\ simulated_partitions' =
                 Append(simulated_partitions, partitioned_nodes)
    /\ UNCHANGED <<runVars, readerVars, loopVars, bridgeVars, floatVars,
                   current_conditions, delay_history, simVars, injectorVars,
                   engineVars, managerVars>>

\* simulate_network_partition of the delay simulator: the two loops over
\* NodeId and partitioned_nodes
DelaySimulateNetworkPartition ==
    /\ Len(simulated_partitions) < MaxPartitionCalls
    /\ \E partitioned_nodes \in
              {<<"EDGE1">>, <<"EDGE2">>, <<"CORE1", "CORE2">>,
               <<"CLOUD1", "EDGE2", "CORE2">>} :
         LET partitioned == {partitioned_nodes[i] :
                                i \in 1..Len(partitioned_nodes)}
         IN /\ baseline_delays' =
                 [key \in DOMAIN baseline_delays |->
                     IF /\ key[2] \in partitioned
                        /\ key[1] # key[2]
                        /\ key[1] \notin partitioned
                     THEN [baseline_delays[key] EXCEPT
                              !.base_delay = @ * 100,
                              !.packet_loss_rate = 900000]
                     ELSE baseline_delays[key]]
            /\ simulated_partitions' =
                 Append(simulated_partitions, partitioned_nodes)
    /\ UNCHANGED <<runVars, readerVars, loopVars, bridgeVars, floatVars,
                   current_conditions, delay_history, simVars, injectorVars,
                   engineVars, managerVars>>

\* -------------------------------------------------------- java_integration.py

\* the public methods that call the Java service
BridgeMethods ==
    {"sync_node_metrics", "get_node_selection",
     "update_load_balancing_strategy", "get_load_balancing_metrics",
     "handle_traffic_fluctuation", "test_java_connectivity",
     "get_java_status", "shutdown_java_service"}

\* what the Java process may do: time out, exit non-zero, leave no response
\* file, write text that is not JSON, write JSON that is not an object (a
\* non-empty array), write an empty object, or write an object with
\* success false or true, the payload of a success being absent, unusable
\* (a node id that is no NodeId) or usable
BridgeOutcomes ==
    {"timeout", "nonzero_exit", "absent_response", "malformed_response",
     "array_response", "empty_object", "success_false",
     "success_without_payload", "success_bad_payload", "success"}

\* _call_java_via_temp_files: the response it returns, "None" standing for
\* None
CallJavaViaTempFiles(outcome) ==
    IF outcome \in {"timeout", "nonzero_exit", "absent_response",
                    "malformed_response"}
    THEN [kind |-> "None", success |-> FALSE, payload |-> "absent"]
    ELSE IF outcome = "array_response"
    THEN [kind |-> "list", success |-> FALSE, payload |-> "absent"]
    ELSE IF outcome = "empty_object"
    THEN [kind |-> "empty_dict", success |-> FALSE, payload |-> "absent"]
    ELSE [kind |-> "dict", success |-> outcome # "success_false",
          payload |-> IF outcome = "success" THEN "usable"
                      ELSE IF outcome = "success_bad_payload" THEN "unusable"
                      ELSE "absent"]

\* the value a method returns from its except clause
HandlerValue(method) ==
    IF method \in {"get_node_selection", "get_load_balancing_metrics"}
    THEN "None"
    ELSE IF method = "get_java_status" THEN "error_dict"
    ELSE "False"

\* the try block of a method on a response: the value it returns, or the
\* exception it raises. "response and response.get('success')" raises
\* AttributeError on a non-empty list; the else branch's
\* response.get('error', ...) raises it on None and on an empty list;
\* NodeId(node_id_str) raises ValueError on an unknown id. The value of the
\* else branch is, in every method, the value of its except clause
TryBlock(method, response) ==
    LET raise == [raised |-> TRUE, value |-> "exception"]
        return(v) == [raised |-> FALSE, value |-> v]
    IN IF response.kind \in {"list", "None"} THEN raise
       ELSE IF response.kind = "empty_dict" \/ ~response.success
       THEN return(HandlerValue(method))
       ELSE IF method = "get_node_selection"
       THEN (IF response.payload = "absent" THEN return("None")
             ELSE IF response.payload = "unusable" THEN raise
             ELSE return("NodeId"))
       ELSE IF method = "get_load_balancing_metrics"
       THEN (IF response.payload = "absent" THEN return("None")
             ELSE IF response.payload = "unusable" THEN raise
             ELSE return("LoadBalancingMetrics"))
       ELSE IF method = "get_java_status"
       THEN (IF response.payload = "absent" THEN return("empty_status")
             ELSE return("status"))
       ELSE return("True")

\* a method without its except clause
BridgeCallUnhandled(method, outcome) ==
    TryBlock(method, CallJavaViaTempFiles(outcome))

\* a method of the bridge: try block and "except Exception" clause
BridgeCall(method, outcome) ==
    LET result == TryBlock(method, CallJavaViaTempFiles(outcome))
    IN IF result.raised
       THEN [raised |-> FALSE, value |-> HandlerValue(method)]
       ELSE result

\* draws of cpu_requirement = random.uniform(5, 25): 6.5, 8.0 and 25.0
CpuRequirementDraws ==
    {RoundToFloat(13, -1), RoundToFloat(8, 0), RoundToFloat(25, 0)}

\* _update_node_load on the floating-point loads, for the first request a
\* node admits: cpu_distribution[node] += request.cpu_requirement
UpdateNodeLoad ==
    /\ LoopRunning
    /\ \E node \in NodeId, cpu_requirement \in CpuRequirementDraws :
         /\ cpu_loads[node].m = 0
         /\ cpu_loads' = [cpu_loads EXCEPT
                             ![node] = FloatAdd(@, cpu_requirement)]
    /\ UNCHANGED <<runVars, readerVars, loopVars, bridgeVars, delayVars,
                   index_update, simVars, injectorVars, engineVars,
                   managerVars>>

\* _update_load_balance_index on the floating-point loads
UpdateLoadBalanceIndex ==
    /\ LoopRunning
    /\ index_update' = [called |-> TRUE, cpu_loads |-> cpu_loads,
                        load_balance_index |->
                            FloatLoadBalanceIndex(cpu_loads)]
    /\ UNCHANGED <<runVars, readerVars, loopVars, bridgeVars, delayVars,
                   cpu_loads, simVars, injectorVars, engineVars, managerVars>>

\* one call of a bridge method
CallBridge ==
    /\ Len(bridge_calls) < MaxBridgeCalls
    /\ \E method \in BridgeMethods, outcome \in BridgeOutcomes :
         bridge_calls' =
             Append(bridge_calls,
                    [method |-> method, outcome |-> outcome,
                     result |-> BridgeCall(method, outcome)])
    /\ UNCHANGED <<runVars, readerVars, loopVars, floatVars, delayVars,
                   simVars, injectorVars, engineVars, managerVars>>

\* the fields of self.state a reader looks at
StateContent ==
    [current_time |-> state_current_time, active_nodes |-> active_nodes,
     failed_nodes |-> failed_nodes, active_failures |-> active_failures]

\* the state held by the caller of the i-th get_current_state call: the call
\* returned self.state itself, so it is the simulation's state as it is now
HeldState(i) == StateContent

\* get_current_state
GetCurrentState ==
    /\ Len(obtained_states) < MaxObtainedStates
    /\ obtained_states' = Append(obtained_states, StateContent)
    /\ UNCHANGED <<runVars, loopVars, bridgeVars, floatVars, delayVars, simVars, injectorVars,
                   engineVars, managerVars>>

\* the risk assessments handed over in a run of the default configuration
DefaultRunAssessments ==
    {[node_id |-> "EDGE1", risk_score |-> 90, failure_type |-> "CRASH",
      dependent_nodes |-> {}]}

\* LoadBalancerSimulation.__init__ and the policy modules' constructors
Constructed(flags, delivered) ==
    /\ config = flags
    /\ workload = delivered
    /\ now = StartTime
    /\ state_current_time = StartTime
    /\ active_nodes = NodeId
    /\ failed_nodes = {}
    /\ cpu_distribution = [n \in NodeId |-> 0]
    /\ memory_distribution = [n \in NodeId |-> 0]
    /\ transaction_distribution = [n \in NodeId |-> 0]
    /\ total_services = 0
    /\ migrations = 0
    /\ load_balance_index = Micro
    /\ service_allocations = <<>>
    /\ active_failures = <<>>
    /\ migration_history = <<>>
    /\ current_strategy = "resource_aware"
    /\ successful_requests = 0
    /\ failed_requests = 0
    /\ failure_history = <<>>
    /\ last_failure_times = [n \in NodeId |-> 0]
    /\ last_migration_times = [i \in 1..delivered.requests |-> 0]
    /\ active_migrations = {}
    /\ node_performance_history = <<>>
    /\ replication_groups = <<>>
    /\ failover_history = <<>>
    /\ failover_calls = <<>>
    /\ multi_node_failure_scenarios = <<>>
    /\ network_partitions = <<>>
    /\ obtained_states = <<>>
    /\ loop_error = ""
    /\ bridge_calls = <<>>
    /\ cpu_loads = [n \in NodeId |-> FloatZero]
    /\ baseline_delays = InitializeBaselineDelays
    /\ current_conditions = <<>>
    /\ delay_history = <<>>
    /\ simulated_partitions = <<>>
    /\ index_update = [called |-> FALSE, cpu_loads |-> cpu_loads,
                       load_balance_index |-> RoundToFloat(1, 0)]

\* the default SimulationConfig: every policy module enabled
Init ==
    Constructed([failure_injection_enabled |-> TRUE,
                 adaptive_migration_enabled |-> TRUE,
                 simulation_duration |-> RunDuration],
                [requests |-> DefaultRunRequests,
                 failures |-> DefaultRunFailures,
                 assessments |-> DefaultRunAssessments,
                 failovers |-> MaxFailovers, scenarios |-> 0, marks |-> 0])

Next ==
    \/ ProcessServiceRequest
    \/ SetLoadBalancingStrategy
    \/ Tick
    \/ CompleteMigration
    \/ ConfigureRedundancyFromRiskAssessment
    \/ ImplementAutomatedFailover

Spec == Init /\ [][Next]_vars

\* a run with failure injection only, in which the traffic generator draws
\* no request
InitFailure ==
    Constructed([failure_injection_enabled |-> TRUE,
                 adaptive_migration_enabled |-> FALSE,
                 simulation_duration |-> FailureRunDuration],
                [requests |-> 0, failures |-> MaxFailures, assessments |-> {},
                 failovers |-> 0, scenarios |-> 0, marks |-> 0])

NextFailure ==
    \/ Tick
    \/ InjectSpecificFailure

SpecFailure == InitFailure /\ [][NextFailure]_vars

\* a run with failure injection only that is long enough for a node to fail,
\* recover, fail again and recover again
InitRecovery ==
    Constructed([failure_injection_enabled |-> TRUE,
                 adaptive_migration_enabled |-> FALSE,
                 simulation_duration |-> RecoveryRunDuration],
                [requests |-> 0, failures |-> MaxRecoveryRunFailures,
                 assessments |-> {}, failovers |-> 0, scenarios |-> 0,
                 marks |-> 0])

NextRecovery == Tick

\* the run under the scheduling of run_simulation: while the loop condition
\* holds the loop body runs again, so a tick that can be taken is taken
SpecRecovery == InitRecovery /\ [][NextRecovery]_vars /\ WF_vars(Tick)

\* a run with adaptive migration only
InitMigration ==
    Constructed([failure_injection_enabled |-> FALSE,
                 adaptive_migration_enabled |-> TRUE,
                 simulation_duration |-> RunDuration],
                [requests |-> MaxRequests, failures |-> 0, assessments |-> {},
                 failovers |-> 0, scenarios |-> 0, marks |-> 0])

NextMigration ==
    \/ ProcessServiceRequest
    \/ SetLoadBalancingStrategy
    \/ Tick
    \/ CompleteMigration

SpecMigration == InitMigration /\ [][NextMigration]_vars

\* a run with adaptive migration only in which nothing but run_simulation
\* acts: no caller completes a migration
NextTickLoop ==
    \/ ProcessServiceRequest
    \/ SetLoadBalancingStrategy
    \/ Tick

SpecTickLoop == InitMigration /\ [][NextTickLoop]_vars

\* a run without policy modules, in which the caller takes nodes out
InitAdmission ==
    Constructed([failure_injection_enabled |-> FALSE,
                 adaptive_migration_enabled |-> FALSE,
                 simulation_duration |-> RunDuration],
                [requests |-> MaxRequests, failures |-> 0, assessments |-> {},
                 failovers |-> 0, scenarios |-> 0, marks |-> 0])

NextAdmission ==
    \/ ProcessServiceRequest
    \/ SetLoadBalancingStrategy
    \/ Tick
    \/ AssignFailedNodes

SpecAdmission == InitAdmission /\ [][NextAdmission]_vars

\* the risk assessments of the redundancy demo (create_sample_risk_assessments)
SampleRiskAssessments ==
    {[node_id |-> "CORE1", risk_score |-> 85, failure_type |-> "BYZANTINE",
      dependent_nodes |-> {"EDGE1", "EDGE2"}],
     [node_id |-> "CORE2", risk_score |-> 72, failure_type |-> "CRASH",
      dependent_nodes |-> {"EDGE1", "EDGE2"}],
     [node_id |-> "CLOUD1", risk_score |-> 68, failure_type |-> "OMISSION",
      dependent_nodes |-> {"CORE1", "CORE2"}],
     [node_id |-> "EDGE1", risk_score |-> 55, failure_type |-> "CRASH",
      dependent_nodes |-> {}],
     [node_id |-> "EDGE2", risk_score |-> 60, failure_type |-> "OMISSION",
      dependent_nodes |-> {}]}

\* a run without policy modules in which the caller configures redundancy,
\* marks nodes failed and asks for failovers
InitFailover ==
    Constructed([failure_injection_enabled |-> FALSE,
                 adaptive_migration_enabled |-> FALSE,
                 simulation_duration |-> RunDuration],
                [requests |-> FailoverRunRequests, failures |-> 0,
                 assessments |-> SampleRiskAssessments,
                 failovers |-> MaxFailoverCalls, scenarios |-> 0,
                 marks |-> MaxMarkedNodes])

NextFailover ==
    \/ ProcessServiceRequest
    \/ ConfigureRedundancyFromRiskAssessment
    \/ MarkNodeFailed
    \/ ImplementAutomatedFailover

SpecFailover == InitFailover /\ [][NextFailover]_vars

\* the assessments handed over in a run of recoveries: the demo's critical
\* node and a node below the high-risk threshold
ScenarioRunAssessments ==
    {risk \in SampleRiskAssessments : risk.node_id \in {"CORE1", "CLOUD1"}}

\* a run without policy modules in which the caller simulates a multi-node
\* failure or a partition and asks for its recovery
InitScenario ==
    Constructed([failure_injection_enabled |-> FALSE,
                 adaptive_migration_enabled |-> FALSE,
                 simulation_duration |-> RunDuration],
                [requests |-> 0, failures |-> 0,
                 assessments |-> ScenarioRunAssessments,
                 failovers |-> MaxRecoveryCalls, scenarios |-> MaxScenarios,
                 marks |-> 0])

NextScenario ==
    \/ ConfigureRedundancyFromRiskAssessment
    \/ AssignFailedNodes
    \/ SimulateMultiNodeFailure
    \/ SimulateNetworkPartition
    \/ MarkScenarioNodesFailed
    \/ HandleMultiNodeFailureRecovery

SpecScenario == InitScenario /\ [][NextScenario]_vars

\* a run with failure injection only, with room for a failure and the
\* failures of both its dependents
InitCascade ==
    Constructed([failure_injection_enabled |-> TRUE,
                 adaptive_migration_enabled |-> FALSE,
                 simulation_duration |-> CascadeRunDuration],
                [requests |-> 0, failures |-> MaxCascadeRunFailures,
                 assessments |-> {}, failovers |-> 0, scenarios |-> 0,
                 marks |-> 0])

NextCascade == Tick

SpecCascade == InitCascade /\ [][NextCascade]_vars

\* one loop iteration with failure injection only, with room for two
\* failures and the failures of the dependents of both
InitCascadePair ==
    Constructed([failure_injection_enabled |-> TRUE,
                 adaptive_migration_enabled |-> FALSE,
                 simulation_duration |-> TimeStep],
                [requests |-> 0, failures |-> MaxCascadePairFailures,
                 assessments |-> {}, failovers |-> 0, scenarios |-> 0,
                 marks |-> 0])

NextCascadePair == Tick

SpecCascadePair == InitCascadePair /\ [][NextCascadePair]_vars

\* a run with failure injection only in which a caller obtains the current
\* state between ticks
InitReader ==
    Constructed([failure_injection_enabled |-> TRUE,
                 adaptive_migration_enabled |-> FALSE,
                 simulation_duration |-> RunDuration],
                [requests |-> 0, failures |-> MaxFailures, assessments |-> {},
                 failovers |-> 0, scenarios |-> 0, marks |-> 0])

NextReader ==
    \/ Tick
    \/ GetCurrentState

SpecReader == InitReader /\ [][NextReader]_vars

\* a run of the default configuration without requests, in which a policy
\* module may raise
InitFault ==
    Constructed([failure_injection_enabled |-> TRUE,
                 adaptive_migration_enabled |-> TRUE,
                 simulation_duration |-> RunDuration],
                [requests |-> 0, failures |-> MaxFailures, assessments |-> {},
                 failovers |-> 0, scenarios |-> 0, marks |-> 0])

NextFault ==
    \/ Tick
    \/ TickRaising

SpecFault == InitFault /\ [][NextFault]_vars

\* a run without policy modules, seen in the floating-point numbers of
\* cpu_distribution
InitBalance ==
    Constructed([failure_injection_enabled |-> FALSE,
                 adaptive_migration_enabled |-> FALSE,
                 simulation_duration |-> RunDuration],
                [requests |-> 0, failures |-> 0, assessments |-> {},
                 failovers |-> 0, scenarios |-> 0, marks |-> 0])

NextBalance ==
    \/ UpdateNodeLoad
    \/ UpdateLoadBalanceIndex

SpecBalance == InitBalance /\ [][NextBalance]_vars

\* a run without policy modules, in which the caller uses the delay
\* simulator
InitDelay ==
    Constructed([failure_injection_enabled |-> FALSE,
                 adaptive_migration_enabled |-> FALSE,
                 simulation_duration |-> RunDuration],
                [requests |-> 0, failures |-> 0, assessments |-> {},
                 failovers |-> 0, scenarios |-> 0, marks |-> 0])

NextDelay ==
    \/ Tick
    \/ InjectNetworkCondition
    \/ DelaySimulateNetworkPartition
    \/ GetDelayToNode

SpecDelay == InitDelay /\ [][NextDelay]_vars

\* a run in which the caller uses the Java bridge
InitBridge ==
    Constructed([failure_injection_enabled |-> FALSE,
                 adaptive_migration_enabled |-> FALSE,
                 simulation_duration |-> RunDuration],
                [requests |-> 0, failures |-> 0, assessments |-> {},
                 failovers |-> 0, scenarios |-> 0, marks |-> 0])

NextBridge == CallBridge

SpecBridge == InitBridge /\ [][NextBridge]_vars

\* RiskAssessment.risk_score draws (hundredths): the thresholds of the
\* decision table, their neighbours and the top of the range
RiskScoreDraws == {49, 50, 69, 70, 84, 85, 100}

\* FailureType
FailureTypes == {"CRASH", "OMISSION", "BYZANTINE", "NETWORK_PARTITION"}

\* RiskAssessment.dependent_nodes draws: none, two and three dependents
DependentNodesDraws ==
    {{}, {"EDGE1", "EDGE2"}, {"EDGE1", "EDGE2", "CLOUD1"}}

\* the risk assessments a caller may hand over
AssessmentDraws ==
    [node_id : NodeId, risk_score : RiskScoreDraws,
     failure_type : FailureTypes, dependent_nodes : DependentNodesDraws]

\* a run without policy modules in which the caller configures redundancy
\* from a list of one risk assessment
InitRedundancy ==
    \E risk \in AssessmentDraws :
        Constructed([failure_injection_enabled |-> FALSE,
                     adaptive_migration_enabled |-> FALSE,
                     simulation_duration |-> RunDuration],
                    [requests |-> 0, failures |-> 0, assessments |-> {risk},
                     failovers |-> 0, scenarios |-> 0, marks |-> 0])

NextRedundancy == ConfigureRedundancyFromRiskAssessment

SpecRedundancy == InitRedundancy /\ [][NextRedundancy]_vars

\* ------------------------------------------------------------- properties

\* C1: at every tick boundary no node is both active and failed, and every
\* one of the five nodes is active or failed
C1_NodeSetsPartition ==
    /\ active_nodes \cap failed_nodes = {}
    /\ active_nodes \cup failed_nodes = NodeId

\* a node that failed has recovered and is active again, with services
\* admitted in the run
C1_Witness ==
    /\ total_services > 0
    /\ \E k \in 1..Len(active_failures) :
         /\ active_failures[k].recovery_time # NoTime
         /\ active_failures[k].node_id \in active_nodes
         /\ active_failures[k].node_id \notin failed_nodes

\* the scenarios of the simulation's failure list on node n whose window
\* [start_time, start_time + duration] holds the time t
ScenariosInWindow(n, t) ==
    {k \in 1..Len(active_failures) :
        /\ active_failures[k].node_id = n
        /\ active_failures[k].start_time <= t
        /\ t <= active_failures[k].start_time + active_failures[k].duration}

\* C2: at every tick boundary a node is in failedNodes exactly when some
\* scenario of the failure list on that node has start <= now <= start +
\* duration, overlapping scenarios included
C2_FailedIffScenarioInWindow ==
    \A n \in NodeId :
        n \in failed_nodes <=> ScenariosInWindow(n, state_current_time) # {}

\* a tick has recovered a node on an expired scenario while another scenario
\* on the same node is still in its window
C2_Witness ==
    \E n \in NodeId :
        /\ ScenariosInWindow(n, state_current_time) # {}
        /\ \E k \in 1..Len(active_failures) :
             /\ active_failures[k].node_id = n
             /\ active_failures[k].recovery_time = state_current_time

\* the loop has run _update_system_state for the time state_current_time
TickHasRun == now # state_current_time

\* C3: after inject_specific_failure(n, D, T) and the tick loop, n is in
\* failedNodes at every tick with T <= now < T + D, and at every tick with
\* now >= T + D n is active again and the scenario has a recovery time
C3_SpecificFailureTakesEffect ==
    \A k \in 1..Len(SpecificFailures) :
        LET f == SpecificFailures[k]
        IN /\ (/\ TickHasRun
               /\ f.start_time <= state_current_time
               /\ state_current_time < f.start_time + f.duration)
              => f.node_id \in failed_nodes
           /\ (/\ TickHasRun
               /\ state_current_time >= f.start_time + f.duration)
              => (f.node_id \in active_nodes /\ f.recovery_time # NoTime)

\* a tick has run inside the window of a scenario made by
\* inject_specific_failure
C3_Witness ==
    \E k \in 1..Len(SpecificFailures) :
        /\ TickHasRun
        /\ SpecificFailures[k].start_time <= state_current_time
        /\ state_current_time < SpecificFailures[k].start_time
                                   + SpecificFailures[k].duration

\* a step that admits the request req on node n
AdmissionStep(n, req) ==
    /\ successful_requests' = successful_requests + 1
    /\ service_allocations' = Append(service_allocations, n)
    /\ cpu_distribution' =
         [cpu_distribution EXCEPT ![n] = @ + req.cpu_requirement]
    /\ memory_distribution' =
         [memory_distribution EXCEPT ![n] = @ + req.memory_requirement]
    /\ transaction_distribution' =
         [transaction_distribution EXCEPT ![n] = @ + req.transaction_load]

\* node n holds no more than its baseline capacity after the step
WithinCapacityAfter(n) ==
    /\ cpu_distribution'[n] <= CpuCapacity(n)
    /\ memory_distribution'[n] <= MemCapacity(n)
    /\ transaction_distribution'[n] <= TxCapacity(n)

\* node m has room for req on all three dimensions before the step
HasRoomFor(m, req) ==
    /\ cpu_distribution[m] + req.cpu_requirement <= CpuCapacity(m)
    /\ memory_distribution[m] + req.memory_requirement <= MemCapacity(m)
    /\ transaction_distribution[m] + req.transaction_load <= TxCapacity(m)

\* C4 as stated: under the resource-aware strategy every admission leaves the
\* chosen node's CPU, memory and transaction counters within its baseline
\* capacity, so a request no available node has room for is never admitted
C4_AdmissionWithinCapacity ==
    [][\A n \in NodeId, req \in RequestDraws :
          (current_strategy = "resource_aware" /\ AdmissionStep(n, req))
             => WithinCapacityAfter(n)]_vars

\* C4 amended: under the resource-aware strategy an admission leaves the
\* chosen node within its baseline capacity whenever some available node has
\* room for the request; when none has, the request is admitted all the same,
\* on an available node of least summed load
C4_AdmissionWithinCapacityWhenRoom ==
    [][\A n \in NodeId, req \in RequestDraws :
          (current_strategy = "resource_aware" /\ AdmissionStep(n, req))
             => /\ n \in AvailableNodes
                /\ IF \E m \in AvailableNodes : HasRoomFor(m, req)
                   THEN WithinCapacityAfter(n)
                   ELSE \A m \in AvailableNodes :
                           cpu_distribution[n] * 10 + memory_distribution[n]
                             + transaction_distribution[n] * 10
                           <= cpu_distribution[m] * 10 + memory_distribution[m]
                                + transaction_distribution[m] * 10]_vars

\* the resource-aware strategy has admitted requests with nodes taken out,
\* both within capacity and, by the fallback, beyond it
C4_Witness ==
    /\ current_strategy = "resource_aware"
    /\ failed_nodes # {}
    /\ successful_requests >= 3
    /\ \E n \in NodeId : cpu_distribution[n] > CpuCapacity(n)
    /\ \E n \in NodeId : /\ cpu_distribution[n] > 0
                          /\ cpu_distribution[n] <= CpuCapacity(n)
                          /\ memory_distribution[n] <= MemCapacity(n)

\* a step in which run_simulation counts one more processed request
RequestStep ==
    successful_requests' + failed_requests'
        = successful_requests + failed_requests + 1

\* C5: a request processed while no node is available (or whose chosen node
\* is failed) is rejected: it is counted as failed, the three load
\* distributions, totalServices and ServiceAllocation stay as they were, and
\* it is not kept for a later admission
C5_RejectionLeavesStateUnchanged ==
    [][(RequestStep /\ (AvailableNodes = {} \/ failed_requests' # failed_requests))
          => /\ AvailableNodes = {}
             /\ failed_requests' = failed_requests + 1
             /\ successful_requests' = successful_requests
             /\ cpu_distribution' = cpu_distribution
             /\ memory_distribution' = memory_distribution
             /\ transaction_distribution' = transaction_distribution
             /\ total_services' = total_services
             /\ service_allocations' = service_allocations
             /\ Len(service_allocations') = successful_requests']_vars

\* a request has been rejected after others were admitted
C5_Witness ==
    /\ failed_requests > 0
    /\ total_services > 0
    /\ AvailableNodes = {}

\* C6: whenever a ServiceAllocation entry is created (admission) or
\* re-pointed (a successful migration applied in the tick loop, or a
\* failover), the node it then names is not in failedNodes at that moment
C6_AllocationTargetNotFailed ==
    [][\A i \in 1..Len(service_allocations') :
          (\/ i > Len(service_allocations)
           \/ service_allocations'[i] # service_allocations[i])
             => service_allocations'[i] \notin failed_nodes']_vars

\* with a node down, services that a migration had moved have been moved
\* again by a failover
C6_Witness ==
    /\ failed_nodes # {}
    /\ \E k \in 1..Len(migration_history) : migration_history[k].success
    /\ \E k \in 1..Len(failover_history) :
         /\ Len(failover_history[k].services_migrated) > 0
         /\ failover_history[k].failover_node # failover_history[k].failed_node

\* the positions of the migration events the step has appended
NewMigrationEvents ==
    (Len(migration_history) + 1)..Len(migration_history')

\* C7: a migration event with success = true moves the service's allocation
\* from the event's source to its destination, a node other than the source;
\* one with success = false leaves the allocation on the source
C7_MigrationEventMatchesAllocation ==
    [][\A k \in NewMigrationEvents :
          LET event == migration_history'[k]
              service == event.service_id
          IN /\ service_allocations[service] = event.source_node
             /\ IF event.success
                THEN /\ event.destination_node # event.source_node
                     /\ service_allocations'[service] = event.destination_node
                ELSE service_allocations'[service] = event.source_node]_vars

\* the history holds a successful and a failed migration
C7_Witness ==
    /\ \E k \in 1..Len(migration_history) : migration_history[k].success
    /\ \E k \in 1..Len(migration_history) : ~migration_history[k].success

\* C8 as stated: a service whose migration attempt has failed is eligible
\* again at once, with no cooldown charged: the next evaluation finds it
\* among the migratable services of its node
C8_FailedMigrationStaysEligible ==
    [][\A k \in NewMigrationEvents :
          LET event == migration_history'[k]
          IN ~event.success
               => event.service_id \in
                    FindMigratableServices(
                        event.source_node, service_allocations',
                        last_migration_times', active_migrations', now')]_vars

\* a migration attempt has failed and its service is still on the source
C8_Witness ==
    \E k \in 1..Len(migration_history) :
        /\ ~migration_history[k].success
        /\ service_allocations[migration_history[k].service_id]
             = migration_history[k].source_node

\* C9: no service has two migration events less than 30 seconds apart of
\* which the earlier one succeeded
C9_CooldownAfterSuccess ==
    \A j, k \in 1..Len(migration_history) :
        (/\ j < k
         /\ migration_history[j].service_id = migration_history[k].service_id
         /\ migration_history[j].success)
          => migration_history[k].start_time - migration_history[j].start_time
               >= MigrationCooldown

\* a service that was migrated successfully has been migrated again
C9_Witness ==
    \E j, k \in 1..Len(migration_history) :
        /\ j < k
        /\ migration_history[j].service_id = migration_history[k].service_id
        /\ migration_history[j].success

\* C10: the number of services the engine tracks as active migrations never
\* exceeds the cap of 3, whatever evaluate_migrations and complete_migration
\* calls have been made
C10_ActiveMigrationsWithinCap ==
    Cardinality(active_migrations) <= MaxConcurrentMigrations

\* an evaluation has started migrations while others were still tracked
C10_Witness ==
    /\ Cardinality(active_migrations) = MaxConcurrentMigrations
    /\ \E j, k \in 1..Len(migration_history) :
         migration_history[j].start_time < migration_history[k].start_time

\* the step is one implement_automated_failover call that returned an event
FailoverEventStep ==
    /\ Len(failover_calls') = Len(failover_calls) + 1
    /\ Len(failover_history') = Len(failover_history) + 1

C12_FailedFailoverMovesNothing ==
    [][FailoverEventStep =>
         LET event == failover_history'[Len(failover_history')]
         IN ~event.success
              => /\ service_allocations' = service_allocations
                 /\ replication_groups' = replication_groups]_vars

\* a failover whose success draw failed is on record, for a node that held
\* services
C12_Witness ==
    \E e \in 1..Len(failover_history) :
        /\ ~failover_history[e].success
        /\ Len(failover_history[e].services_migrated) > 0

\* the step is one implement_automated_failover call
FailoverCallStep == Len(failover_calls') = Len(failover_calls) + 1

\* C13: a failover asked for a node whose replication group has no
\* non-failed replica records an unsuccessful FailoverEvent in the failover
\* history
C13_NoReplicaFailoverIsRecorded ==
    [][FailoverCallStep =>
         LET call == failover_calls'[Len(failover_calls')]
             k == FindReplicationGroupForNode(replication_groups,
                                              call.failed_node)
         IN (/\ k # 0
             /\ replication_groups[k].replica_nodes \subseteq failed_nodes)
              => /\ Len(failover_history') = Len(failover_history) + 1
                 /\ ~failover_history'[Len(failover_history')].success
                 /\ failover_history'[Len(failover_history')].failed_node
                      = call.failed_node]_vars

\* a failover was asked for a node of a group whose replicas are all failed
C13_Witness ==
    \E c \in 1..Len(failover_calls) :
        LET k == FindReplicationGroupForNode(replication_groups,
                                             failover_calls[c].failed_node)
        IN /\ k # 0
           /\ replication_groups[k].replica_nodes \subseteq failed_nodes
           /\ ~failover_calls[c].returned

\* no replication group holds the node, as primary or as replica
InNoGroup(node) ==
    \A k \in 1..Len(replication_groups) :
        /\ node # replication_groups[k].primary_node
        /\ node \notin replication_groups[k].replica_nodes

\* C14: a failover asked for a node that belongs to no replication group
\* returns None and leaves ServiceAllocation, the replication groups and the
\* failover history as they were
C14_NoGroupFailoverChangesNothing ==
    [][FailoverCallStep =>
         LET call == failover_calls'[Len(failover_calls')]
         IN InNoGroup(call.failed_node)
              => /\ ~call.returned
                 /\ service_allocations' = service_allocations
                 /\ replication_groups' = replication_groups
                 /\ failover_history' = failover_history]_vars

\* with groups configured and services placed, a failover was asked for a
\* failed node that no group holds
C14_Witness ==
    /\ replication_groups # <<>>
    /\ service_allocations # <<>>
    /\ \E c \in 1..Len(failover_calls) :
          /\ InNoGroup(failover_calls[c].failed_node)
          /\ ~failover_calls[c].returned

\* C15: in every replication group, whatever configure and failover calls
\* have been made, the replica set does not contain the group's primary
C15_ReplicasExcludePrimary ==
    \A k \in 1..Len(replication_groups) :
        replication_groups[k].primary_node
            \notin replication_groups[k].replica_nodes

\* a group's primary was replaced by a failover, and failovers both
\* successful and unsuccessful are on record
C15_Witness ==
    /\ \E k \in 1..Len(replication_groups) :
          replication_groups[k].primary_node # replication_groups[k].group_id
    /\ \E e \in 1..Len(failover_history) : failover_history[e].success
    /\ \E e \in 1..Len(failover_history) : ~failover_history[e].success

\* the static dependency table: a core failure reaches both edges, a cloud
\* failure both cores, an edge failure no node
IsListedDependent(dependent, trigger) ==
    \/ trigger \in {"CORE1", "CORE2"} /\ dependent \in {"EDGE1", "EDGE2"}
    \/ trigger = "CLOUD1" /\ dependent \in {"CORE1", "CORE2"}

\* the cascading failure follows the table and is milder, shorter and later
\* than the trigger
CascadesFrom(cascading, trigger) ==
    /\ IsListedDependent(cascading.node_id, trigger.node_id)
    /\ cascading.node_id # trigger.node_id
    /\ cascading.severity < trigger.severity
    /\ cascading.duration < trigger.duration
    /\ cascading.start_time > trigger.start_time

\* C16: a cascading failure made by the failure injector is on a node the
\* static dependency table lists as a dependent of its trigger, never on the
\* trigger itself, and has strictly lower severity, strictly shorter duration
\* and a strictly later start than the trigger: both for every cascade the
\* injector can draw from the primary failures of the coming call, and for
\* the cascading failures a tick has handed to the simulation
C16_CascadesFollowDependencyTable ==
    [][/\ \A initial_failures \in
              PrimaryFailures(1, now, workload.failures - Len(active_failures)) :
            \A i \in 1..Len(initial_failures) :
               \A cascading \in
                     CascadesOf(initial_failures[i],
                                CascadeTargets(initial_failures[i],
                                               initial_failures), 1, now) :
                  \A j \in 1..Len(cascading) :
                     CascadesFrom(cascading[j], initial_failures[i])
       /\ \A c \in (Len(active_failures) + 1)..Len(active_failures') :
             LET new_failure == active_failures'[c]
                 is_primary ==
                     \E h \in (Len(failure_history) + 1)..Len(failure_history') :
                        /\ failure_history'[h].node_id = new_failure.node_id
                        /\ failure_history'[h].start_time = new_failure.start_time
                        /\ failure_history'[h].failure_type = new_failure.failure_type
             IN (~is_primary /\ new_failure.failure_type # "NETWORK_PARTITION")
                  => \E h \in (Len(failure_history) + 1)..Len(failure_history') :
                        CascadesFrom(new_failure, failure_history'[h])]_vars

\* a tick has handed over a primary failure and a cascading failure on one of
\* its dependents
C16_Witness ==
    \E c, t \in 1..Len(active_failures) :
        /\ active_failures[c].start_time > active_failures[t].start_time
        /\ active_failures[c].start_time < active_failures[t].start_time + TimeStep
        /\ IsListedDependent(active_failures[c].node_id,
                             active_failures[t].node_id)

\* C17: every failure scenario inject_failures returns (primary, cascading
\* or network partition) has been appended to the injector's failure
\* history, and the history only grows
C17_ReturnedScenariosInHistory ==
    [][/\ \A c \in (Len(active_failures) + 1)..Len(active_failures') :
             \E h \in 1..Len(failure_history') :
                /\ failure_history'[h].node_id = active_failures'[c].node_id
                /\ failure_history'[h].failure_type
                     = active_failures'[c].failure_type
                /\ failure_history'[h].start_time
                     = active_failures'[c].start_time
                /\ failure_history'[h].duration = active_failures'[c].duration
       /\ Len(failure_history') >= Len(failure_history)
       /\ SubSeq(failure_history', 1, Len(failure_history)) = failure_history]_vars

\* inject_failures has returned a primary failure together with a network
\* partition scenario
C17_Witness ==
    /\ failure_history # <<>>
    /\ \E c \in 1..Len(active_failures) :
          active_failures[c].failure_type = "NETWORK_PARTITION"

\* the nodes in descending static criticality
CriticalityOrder == <<"CORE1", "CORE2", "CLOUD1", "EDGE1", "EDGE2">>

CriticalityRank(n) ==
    CHOOSE r \in 1..Len(CriticalityOrder) : CriticalityOrder[r] = n

\* C18: in the list of failover events that a multi-node failure recovery
\* returns, the event of a node of higher static criticality (CORE1, CORE2,
\* CLOUD1, EDGE1, EDGE2) comes before the event of a node of lower
\* criticality
C18_RecoveryInCriticalityOrder ==
    [][\A i, j \in (Len(failover_history) + 1)..Len(failover_history') :
          i < j => CriticalityRank(failover_history'[i].failed_node)
                     < CriticalityRank(failover_history'[j].failed_node)]_vars

\* one recovery has returned the events of two failed nodes
C18_Witness ==
    \E i, j \in 1..Len(failover_history) :
        /\ i < j
        /\ failover_history[i].failed_node # failover_history[j].failed_node
        /\ \E s \in 1..Len(multi_node_failure_scenarios) :
              {failover_history[i].failed_node, failover_history[j].failed_node}
                  \subseteq multi_node_failure_scenarios[s].failed_nodes

\* the fixed per-node failure types: EDGE1 and CORE2 crash, EDGE2 and CLOUD1
\* omit, CORE1 is Byzantine
StaticFailureType(n) ==
    IF n \in {"EDGE1", "CORE2"} THEN "CRASH"
    ELSE IF n \in {"EDGE2", "CLOUD1"} THEN "OMISSION"
    ELSE "BYZANTINE"

\* the scenario fails exactly min(node_count, available) distinct nodes, all
\* of them active and not failed, each with its static failure type
FailsAsAsked(scenario, node_count, active, failed) ==
    LET available == active \ failed
    IN /\ Cardinality(scenario.failed_nodes)
            = (IF node_count <= Cardinality(available) THEN node_count
               ELSE Cardinality(available))
       /\ scenario.failed_nodes \subseteq available
       /\ DOMAIN scenario.failure_types = scenario.failed_nodes
       /\ \A n \in scenario.failed_nodes :
             scenario.failure_types[n] = StaticFailureType(n)

\* C19: simulate_multi_node_failure(N) marks exactly min(N, number of active
\* non-failed nodes) distinct nodes failed in the scenario, all drawn from
\* the active non-failed nodes, each with its failure type from the fixed
\* per-node table: both for every scenario a call can create from any sets
\* of active and failed nodes, and for the scenario a call has stored
C19_MultiNodeFailureAsAsked ==
    /\ \A active \in SUBSET NodeId, failed \in SUBSET NodeId :
          \A node_count \in 0..(Cardinality(NodeId) + 1),
             include_network_partition \in BOOLEAN :
             \A scenario \in MultiNodeFailureScenarios(
                                 node_count, active, failed,
                                 include_network_partition, now) :
                FailsAsAsked(scenario, node_count, active, failed)
    /\ [][(/\ Len(multi_node_failure_scenarios')
                = Len(multi_node_failure_scenarios) + 1
           /\ network_partitions' = network_partitions)
            => \E node_count \in NodeCountDraws :
                  FailsAsAsked(
                      multi_node_failure_scenarios'[
                          Len(multi_node_failure_scenarios')],
                      node_count, active_nodes, failed_nodes)]_vars

\* with three nodes out, a call for three nodes has failed the two nodes
\* that were left, a crash-type and an omission-type node
C19_Witness ==
    \E s \in 1..Len(multi_node_failure_scenarios) :
        LET scenario == multi_node_failure_scenarios[s]
        IN /\ network_partitions = <<>>
           /\ Cardinality(scenario.failed_nodes) = 2
           /\ scenario.failed_nodes = active_nodes
           /\ \E n \in scenario.failed_nodes :
                 scenario.failure_types[n] = "CRASH"
           /\ \E n \in scenario.failed_nodes :
                 scenario.failure_types[n] = "OMISSION"

\* the scenario splits the active nodes into 2 or 3 non-empty, pairwise
\* disjoint groups that cover them, and fails exactly the active nodes
\* outside a largest group, each tagged NETWORK_PARTITION
SplitsActiveNodes(scenario, active) ==
    LET groups == scenario.partition_groups
    IN /\ Len(groups) \in {2, 3}
       /\ \A g \in 1..Len(groups) : groups[g] # {}
       /\ \A g, h \in 1..Len(groups) :
             g # h => groups[g] \cap groups[h] = {}
       /\ UNION {groups[g] : g \in 1..Len(groups)} = active
       /\ \E g \in 1..Len(groups) :
             /\ \A h \in 1..Len(groups) :
                   Cardinality(groups[h]) <= Cardinality(groups[g])
             /\ scenario.failed_nodes = active \ groups[g]
       /\ DOMAIN scenario.failure_types = scenario.failed_nodes
       /\ \A n \in scenario.failed_nodes :
             scenario.failure_types[n] = "NETWORK_PARTITION"
       /\ scenario.is_network_partition

\* C20: with at least two active nodes, simulate_network_partition splits the
\* active nodes into 2 or 3 non-empty, pairwise disjoint groups that cover
\* them; the scenario's failed nodes are the active nodes outside a largest
\* group, each tagged NETWORK_PARTITION: both for every scenario a call can
\* create from any set of two or more active nodes, and for the scenario a
\* call has stored
C20_PartitionSplitsActiveNodes ==
    /\ \A active \in SUBSET NodeId :
          Cardinality(active) >= 2
            => \A scenario \in NetworkPartitionScenarios(active, now) :
                  SplitsActiveNodes(scenario, active)
    /\ [][(/\ Cardinality(active_nodes) >= 2
            /\ Len(network_partitions') = Len(network_partitions) + 1)
             => SplitsActiveNodes(
                    multi_node_failure_scenarios'[
                        Len(multi_node_failure_scenarios')],
                    active_nodes)]_vars

\* a partition of all five nodes into three groups is on record: three nodes
\* in the majority, two nodes failed
C20_Witness ==
    \E s \in 1..Len(multi_node_failure_scenarios) :
        LET scenario == multi_node_failure_scenarios[s]
        IN /\ network_partitions # <<>>
           /\ Len(scenario.partition_groups) = 3
           /\ Cardinality(scenario.failed_nodes) = 2
           /\ \A n \in scenario.failed_nodes :
                 scenario.failure_types[n] = "NETWORK_PARTITION"

\* the decision table on risk score (hundredths) and failure type
DecisionTable(risk) ==
    CASE risk.risk_score >= 85 /\ risk.failure_type = "BYZANTINE"
           -> "n_way_replication"
      [] risk.risk_score >= 85 /\ risk.failure_type # "BYZANTINE"
           -> "active_active"
      [] risk.risk_score >= 70 /\ risk.risk_score < 85
         /\ Cardinality(risk.dependent_nodes) > 2
           -> "active_active"
      [] risk.risk_score >= 70 /\ risk.risk_score < 85
         /\ Cardinality(risk.dependent_nodes) <= 2
           -> "active_passive"
      [] risk.risk_score >= 50 /\ risk.risk_score < 70 -> "active_passive"
      [] risk.risk_score < 50 -> "geographic_redundancy"

\* the groups that the step has stored or replaced
StoredGroups ==
    {replication_groups'[k] : k \in
        {j \in 1..Len(replication_groups') :
            \/ j > Len(replication_groups)
            \/ replication_groups'[j] # replication_groups[j]}}

\* C21: _select_redundancy_strategy follows the decision table for every risk
\* score, failure type and number of dependents, the boundary scores 0.85,
\* 0.70 and 0.50 included, and the strategy stored in a group that
\* configure_redundancy_from_risk_assessment creates is the table's strategy
\* for the node's assessment
C21_StrategyFollowsDecisionTable ==
    /\ \A risk \in AssessmentDraws :
          SelectRedundancyStrategy(risk) = DecisionTable(risk)
    /\ [][\A group \in StoredGroups :
             \E risk \in workload.assessments :
                /\ risk.node_id = group.primary_node
                /\ group.strategy = DecisionTable(risk)]_vars

\* a group is on record for a node assessed at exactly 0.70 with two
\* dependents, with the active-passive strategy
C21_Witness ==
    \E k \in 1..Len(replication_groups), risk \in workload.assessments :
        /\ risk.node_id = replication_groups[k].primary_node
        /\ risk.risk_score = 70
        /\ Cardinality(risk.dependent_nodes) = 2
        /\ replication_groups[k].strategy = "active_passive"

\* the groups on record with the node for primary
GroupsOf(node) ==
    {replication_groups[k] : k \in
        {j \in 1..Len(replication_groups) :
            replication_groups[j].primary_node = node}}

C23_SameTypeReplicaOnlyWhenNeeded ==
    \A risk \in workload.assessments :
       \A group \in GroupsOf(risk.node_id) :
          (\E r \in group.replica_nodes :
              StaticFailureType(r) = risk.failure_type)
            => \A n \in NodeId \ {group.primary_node} :
                  StaticFailureType(n) # risk.failure_type
                    => n \in group.replica_nodes

\* a group is on record with a replica of the primary's assessed failure
\* type: too few nodes of another type existed
C23_Witness ==
    \E risk \in workload.assessments :
       \E group \in GroupsOf(risk.node_id) :
          /\ \E r \in group.replica_nodes :
                StaticFailureType(r) = risk.failure_type
          /\ Cardinality({n \in NodeId \ {group.primary_node} :
                            StaticFailureType(n) # risk.failure_type})
               < group.replication_factor

\* C24: a state obtained from get_current_state is a snapshot: whatever
\* ticks run after the call, it stays as it was when the call returned
C24_ObtainedStateIsSnapshot ==
    \A i \in 1..Len(obtained_states) : HeldState(i) = obtained_states[i]

\* a caller holds a state obtained at an earlier tick, in which no node had
\* failed yet
C24_Witness ==
    \E i \in 1..Len(obtained_states) :
        /\ obtained_states[i].current_time < state_current_time
        /\ obtained_states[i].failed_nodes = {}

\* C25: an error raised inside a policy module during a tick does not end
\* the loop of run_simulation: while simulation time is left, the next tick
\* can run
C25_PolicyErrorDoesNotEndLoop ==
    (/\ loop_error # ""
     /\ now < StartTime + config.simulation_duration) => ENABLED Tick

\* the migration engine has raised in a tick that had failed a node, with
\* simulation time left
C25_Witness ==
    /\ loop_error = "adaptive_migration_engine"
    /\ failed_nodes # {}
    /\ now < StartTime + config.simulation_duration

\* the bridge outcomes that are failures
FailedOutcomes ==
    {"timeout", "nonzero_exit", "absent_response", "malformed_response",
     "array_response", "empty_object", "success_false"}

\* C26: no bridge call raises, whatever the bridge's outcome, and on a
\* timeout, a non-zero exit, an absent response, a malformed response or a
\* response with success=false the call returns a failure value: False, None
\* or an error dictionary
C26_BridgeCallsNeverRaise ==
    \A k \in 1..Len(bridge_calls) :
        LET call == bridge_calls[k]
        IN /\ ~call.result.raised
           /\ call.outcome \in FailedOutcomes
                => call.result.value \in {"False", "None", "error_dict"}

\* get_node_selection has met a response the try block cannot read (None
\* after a timeout) and get_java_status a response with success=false
C26_Witness ==
    \E j, k \in 1..Len(bridge_calls) :
        /\ bridge_calls[j].method = "get_node_selection"
        /\ bridge_calls[j].outcome = "timeout"
        /\ bridge_calls[j].result.value = "None"
        /\ bridge_calls[k].method = "get_java_status"
        /\ bridge_calls[k].outcome = "success_false"
        /\ bridge_calls[k].result.value = "error_dict"

\* C27: at every tick boundary, whatever CPU loads the admissions have put
\* on the nodes, the load balance index lies between 0 and 1
C27_LoadBalanceIndexInUnitInterval ==
    /\ load_balance_index >= 0
    /\ load_balance_index <= Micro

\* a tick has computed the index of CPU loads whose coefficient of variation
\* exceeds 1: one admitted request, on one node
C27_Witness ==
    /\ successful_requests = 1
    /\ \E n \in NodeId : cpu_distribution[n] > 0
    /\ state_current_time > StartTime
    /\ load_balance_index = LoadBalanceIndex(cpu_distribution)
    /\ load_balance_index = 0

\* the loads are the same on every node
UniformLoads(loads) == \A n, m \in NodeId : loads[n] = loads[m]

\* C28: after _update_load_balance_index the index is exactly 1 when all
\* nodes have the same CPU load (all zero included), and strictly less than 1
\* when the loads are not all the same and their mean is positive
C28_IndexOneIffUniform ==
    index_update.called
      => LET loads == index_update.cpu_loads
             one == RoundToFloat(1, 0)
         IN /\ UniformLoads(loads) => index_update.load_balance_index = one
            /\ ~UniformLoads(loads)
                 => FloatLess(index_update.load_balance_index, one)

\* the index was computed for five nodes that each carry the CPU load 6.5
C28_Witness ==
    /\ index_update.called
    /\ \A n \in NodeId : index_update.cpu_loads[n] = RoundToFloat(13, -1)

\* C29: get_delay_to_node never returns less than 0.001 seconds: neither
\* the delays it has returned, nor any delay it may return now, for any source
\* (the default included) and destination, the same node included, whatever
\* conditions are active and whatever partitions have been simulated
C29_DelayAtLeastOneMillisecond ==
    /\ \A k \in 1..Len(delay_history) : delay_history[k].delay >= 1000
    /\ \A destination \in NodeId, source \in NodeId \cup {"None"} :
          \A delay \in DelaysToNode(destination, source, now) : delay >= 1000

\* after a partition simulation and under an active network condition, a
\* delay from a node to itself was returned at the minimum
C29_Witness ==
    /\ Len(simulated_partitions) = 1
    /\ \E c \in 1..Len(current_conditions) :
          /\ current_conditions[c].start_time <= now
          /\ now <= current_conditions[c].start_time
                      + current_conditions[c].duration
    /\ \E k \in 1..Len(delay_history) :
          /\ delay_history[k].source = delay_history[k].destination
          /\ delay_history[k].delay = 1000

\* C30: every scenario of the simulation's failure list, scenarios that
\* overlap on one node included, has a recovery time once a tick has run at a
\* time later than its start_time + duration
C30_ExpiredScenarioHasRecoveryTime ==
    \A k \in 1..Len(active_failures) :
        (/\ TickHasRun
         /\ state_current_time
              > active_failures[k].start_time + active_failures[k].duration)
          => active_failures[k].recovery_time # NoTime

\* two scenarios of the failure list on one node, overlapping in time, and a
\* tick has run after the end of both
C30_Witness ==
    \E j, k \in 1..Len(active_failures) :
        LET a == active_failures[j]
            b == active_failures[k]
        IN /\ j # k
           /\ a.node_id = b.node_id
           /\ a.start_time <= b.start_time
           /\ b.start_time <= a.start_time + a.duration
           /\ TickHasRun
           /\ state_current_time > a.start_time + a.duration
           /\ state_current_time > b.start_time + b.duration

\* C31: the recovery time of a scenario of the failure list is set once: no
\* step changes a recovery time that has been stamped, also when the
\* scenario's node fails again
C31_RecoveryTimeSetOnce ==
    [][\A k \in 1..Len(active_failures) :
          active_failures[k].recovery_time # NoTime
            => /\ k <= Len(active_failures')
               /\ active_failures'[k].recovery_time
                    = active_failures[k].recovery_time]_vars

\* a scenario has been stamped and its node is failed again, on a later
\* scenario of the failure list
C31_Witness ==
    \E j, k \in 1..Len(active_failures) :
        /\ active_failures[j].node_id = active_failures[k].node_id
        /\ active_failures[j].recovery_time # NoTime
        /\ active_failures[k].start_time
             > active_failures[j].start_time + active_failures[j].duration
        /\ active_failures[k].start_time >= active_failures[j].recovery_time
        /\ active_failures[k].node_id \in failed_nodes

\* the scenarios of the failure list a step has added with a delayed start:
\* the cascading failures of the step's inject_failures call
NewCascades ==
    {c \in (Len(active_failures) + 1)..Len(active_failures') :
        active_failures'[c].start_time > now}

\* the nodes that failed as primaries in the step's inject_failures call
NewPrimaryNodes ==
    {failure_history'[h].node_id :
        h \in (Len(failure_history) + 1)..Len(failure_history')}

\* C32: within one inject_failures call a dependent node is given a cascading
\* failure only if it is not failed and is no primary failure of the call,
\* and no node is given two cascading failures, also when several of the
\* nodes it depends on fail and cascade in the call
C32_OneCascadePerDependent ==
    [][/\ \A c \in NewCascades :
             /\ active_failures'[c].node_id \notin failed_nodes
             /\ active_failures'[c].node_id \notin NewPrimaryNodes
       /\ \A c, d \in NewCascades :
             c # d => active_failures'[c].node_id # active_failures'[d].node_id]_vars

\* CORE1 and CORE2 have failed in one call and EDGE1, a dependent of both,
\* has a cascading failure of that call
C32_Witness ==
    \E a, b, c \in 1..Len(active_failures) :
        /\ active_failures[a].node_id = "CORE1"
        /\ active_failures[b].node_id = "CORE2"
        /\ active_failures[a].start_time = active_failures[b].start_time
        /\ active_failures[c].node_id = "EDGE1"
        /\ active_failures[c].start_time > active_failures[a].start_time
        /\ active_failures[c].start_time
             <= active_failures[a].start_time + 30

\* the coming evaluate_migrations would look for services to move off the
\* node: the loop runs, the cap is not reached, the node is overloaded and
\* has an underloaded destination
EvaluationConsiders(node) ==
    /\ LoopRunning
    /\ Cardinality(active_migrations) < MaxConcurrentMigrations
    /\ node \in IdentifyOverloadedNodes(active_nodes, failed_nodes)
    /\ FindBestDestination(
           node, IdentifyUnderloadedNodes(active_nodes, failed_nodes)) # {}

\* the services whose last migration attempt succeeded, 30 s ago or earlier
MigratedLongAgo ==
    {migration_history[k].service_id : k \in
        {j \in 1..Len(migration_history) :
            /\ migration_history[j].success
            /\ last_migration_times[migration_history[j].service_id]
                 = migration_history[j].start_time
            /\ now - migration_history[j].start_time >= MigrationCooldown}}

\* C33: in the tick loop a service whose migration succeeded does not stay in
\* the migrating state: once 30 s have passed since the migration it is a
\* migration candidate again whenever its node is overloaded, an underloaded
\* destination exists and the cap is not reached
C33_MigratedServiceEligibleAgain ==
    \A service \in MigratedLongAgo :
        EvaluationConsiders(service_allocations[service])
          => /\ service \notin active_migrations
             /\ service \in FindMigratableServices(
                                service_allocations[service],
                                service_allocations, last_migration_times,
                                active_migrations, now)

\* 30 s after a service was migrated, the node it was moved to is overloaded
\* and the coming evaluation looks for services to move off it
C33_Witness ==
    \E service \in MigratedLongAgo :
        EvaluationConsiders(service_allocations[service])

\* the step's first FailoverEvent, returned by an implement_automated_failover
\* call that found the replication groups as they were before the step
FirstNewFailoverEvent == failover_history'[Len(failover_history) + 1]

\* C34: every FailoverEvent returned by implement_automated_failover names a
\* failover node that is a replica of the located group, is not in
\* failedNodes, and differs from the failed node
C34_FailoverNodeIsLiveReplica ==
    [][Len(failover_history') > Len(failover_history) =>
         LET event == FirstNewFailoverEvent
             k == FindReplicationGroupForNode(replication_groups,
                                              event.failed_node)
         IN /\ k # 0
            /\ event.failover_node \in replication_groups[k].replica_nodes
            /\ event.failover_node \notin failed_nodes
            /\ event.failover_node # event.failed_node]_vars

\* a failover has returned an event for a node that is a replica of the
\* group located for it
C34_Witness ==
    \E e \in 1..Len(failover_history) :
        LET k == FindReplicationGroupForNode(replication_groups,
                                             failover_history[e].failed_node)
        IN /\ k # 0
           /\ failover_history[e].failed_node
                \in replication_groups[k].replica_nodes


\* the node is the primary of a group and a replica of another one
PrimaryAndReplica(groups, node) ==
    \E g, h \in 1..Len(groups) :
        /\ g # h
        /\ groups[g].primary_node = node
        /\ node \in groups[h].replica_nodes

\* C35: when the failed node is the primary of its own group and also a
\* replica in another group, the failover operates on the group in which it
\* is primary: after a successful failover the node is no longer the primary
\* of any group
C35_FailoverOperatesOnOwnGroup ==
    [][FailoverEventStep =>
         LET event == failover_history'[Len(failover_history')]
         IN (event.success
             /\ PrimaryAndReplica(replication_groups, event.failed_node))
              => \A g \in 1..Len(replication_groups') :
                    replication_groups'[g].primary_node # event.failed_node]_vars

\* a failover has succeeded for a node that was the primary of one group
\* and a replica of another one
C35_Witness ==
    \E e \in 1..Len(failover_history) :
        /\ failover_history[e].success
        /\ \E g, h \in 1..Len(replication_groups) :
              /\ g # h
              /\ failover_history[e].failed_node
                   \in replication_groups[h].replica_nodes
              /\ \/ replication_groups[g].primary_node
                      = failover_history[e].failed_node
                 \/ replication_groups[g].primary_node
                      = failover_history[e].failover_node


\* C36: a successful admission adds the request's CPU, memory and transaction
\* requirement to the chosen node's counters, increments totalServices by
\* exactly 1, records the allocation, and leaves every other node's counters
\* and every other allocation unchanged
C36_AdmissionFrame ==
    [][successful_requests' = successful_requests + 1 =>
         \E n \in NodeId \ failed_nodes, req \in RequestDraws :
            /\ cpu_distribution'[n] = cpu_distribution[n] + req.cpu_requirement
            /\ memory_distribution'[n] =
                 memory_distribution[n] + req.memory_requirement
            /\ transaction_distribution'[n] =
                 transaction_distribution[n] + req.transaction_load
            /\ \A m \in NodeId \ {n} :
                  /\ cpu_distribution'[m] = cpu_distribution[m]
                  /\ memory_distribution'[m] = memory_distribution[m]
                  /\ transaction_distribution'[m] = transaction_distribution[m]
            /\ total_services' = total_services + 1
            /\ Len(service_allocations') = Len(service_allocations) + 1
            /\ service_allocations'[Len(service_allocations')] = n
            /\ \A i \in 1..Len(service_allocations) :
                  service_allocations'[i] = service_allocations[i]]_vars

\* two requests were admitted on one node and a third on another node
C36_Witness ==
    /\ successful_requests >= 3
    /\ \E i, j, k \in 1..Len(service_allocations) :
          /\ i < j
          /\ service_allocations[i] = service_allocations[j]
          /\ service_allocations[k] # service_allocations[i]
          /\ cpu_distribution[service_allocations[i]] > 25


\* the nodes of the last partition the delay simulator was asked for
LastPartitioned(partitions) ==
    {partitions[Len(partitions)][i] : i \in 1..Len(partitions[Len(partitions)])}

\* C37: the delay simulator's simulate_network_partition multiplies the
\* baseline delay by 100 and sets the packet loss to 90% exactly for the
\* directed pairs whose source is outside the partitioned set and whose
\* destination is inside it; every other pair keeps its baseline delay and
\* loss
C37_PartitionFrame ==
    [][Len(simulated_partitions') = Len(simulated_partitions) + 1 =>
         LET partitioned == LastPartitioned(simulated_partitions')
         IN \A source, destination \in NodeId :
               LET before == baseline_delays[<<source, destination>>]
                   after == baseline_delays'[<<source, destination>>]
               IN IF source \notin partitioned /\ destination \in partitioned
                  THEN /\ after.base_delay = before.base_delay * 100
                       /\ after.packet_loss_rate = 900000
                  ELSE /\ after.base_delay = before.base_delay
                       /\ after.packet_loss_rate = before.packet_loss_rate]_vars

\* a partition of two nodes or more was simulated: a pair from outside into
\* it has 90% loss, while a pair inside it, a pair out of it and a pair of
\* unaffected nodes have the loss of the construction
C37_Witness ==
    /\ simulated_partitions # <<>>
    /\ LET partitioned == LastPartitioned(simulated_partitions)
           Kept(key) == baseline_delays[key] = InitializeBaselineDelays[key]
       IN /\ Cardinality(partitioned) >= 2
          /\ \E a, b \in partitioned, c, d \in NodeId \ partitioned :
                /\ a # b
                /\ c # d
                /\ baseline_delays[<<c, a>>].packet_loss_rate = 900000
                /\ baseline_delays[<<c, a>>].base_delay =
                     InitializeBaselineDelays[<<c, a>>].base_delay * 100
                /\ Kept(<<a, b>>)
                /\ Kept(<<a, c>>)
                /\ Kept(<<c, d>>)
                /\ Kept(<<a, a>>)


\* C38: in the tick loop the engine's active-migration set never shrinks, so
\* once three or more services have been added to it, evaluate_migrations
\* returns no migrations on every later tick, however overloaded the nodes
\* are
C38_FullActiveSetStopsMigrations ==
    [][/\ active_migrations \subseteq active_migrations'
       /\ Cardinality(active_migrations) >= MaxConcurrentMigrations
            => /\ migration_history' = migration_history
               /\ service_allocations' \in
                    {service_allocations} \cup
                    {Append(service_allocations, n) : n \in NodeId}]_vars

\* the run's last tick found three services in the active set, an overloaded
\* node with a service that never migrated and an underloaded node to take
\* it
C38_Witness ==
    /\ ~LoopRunning
    /\ TickHasRun
    /\ Cardinality(active_migrations) >= MaxConcurrentMigrations
    /\ \A k \in 1..Len(migration_history) :
          migration_history[k].start_time < state_current_time
    /\ \E n \in IdentifyOverloadedNodes(active_nodes, failed_nodes) :
          /\ FindMigratableServices(n, service_allocations,
                                    last_migration_times, active_migrations,
                                    state_current_time) # {}
          /\ FindBestDestination(
                 n, IdentifyUnderloadedNodes(active_nodes, failed_nodes)) # {}


\* the three per-node load counters
LoadCounters ==
    <<cpu_distribution, memory_distribution, transaction_distribution>>

\* C39: the per-node CPU, memory and transaction counters are changed only
\* by admission: failure, recovery, migration (successful or failed) and
\* failover leave them unchanged, so a service's load stays counted on the
\* node that admitted it and every counter is non-decreasing over a run
C39_CountersChangeOnlyByAdmission ==
    [][/\ LoadCounters' # LoadCounters
            => /\ successful_requests' = successful_requests + 1
               /\ failed_nodes' = failed_nodes
               /\ migration_history' = migration_history
               /\ failover_history' = failover_history
       /\ \A n \in NodeId :
             /\ cpu_distribution'[n] >= cpu_distribution[n]
             /\ memory_distribution'[n] >= memory_distribution[n]
             /\ transaction_distribution'[n] >= transaction_distribution[n]]_vars

\* a service has been moved by a successful migration and a node has
\* failed, while the node that received the service counts no load and the
\* node that admitted every request still counts the whole admitted load
C39_Witness ==
    /\ \E k \in 1..Len(migration_history) :
          /\ migration_history[k].success
          /\ cpu_distribution[migration_history[k].destination_node] = 0
          /\ cpu_distribution[migration_history[k].source_node] > 0
    /\ failed_nodes # {}
    /\ \E n \in NodeId :
          cpu_distribution[n] =
              successful_requests * 25


\* the environment creates no further failure scenario
NoNewScenario == Len(active_failures) = workload.failures

\* the loop keeps running past the end of every scenario: its last
\* iteration comes after each of them has expired
TicksOutlastScenarios ==
    \A k \in 1..Len(active_failures) :
        active_failures[k].start_time + active_failures[k].duration
            < StartTime + config.simulation_duration - TimeStep

\* C40: if ticks keep running and from some tick on no new failure scenario
\* is created, every node in failedNodes eventually returns to activeNodes
C40_FailedNodeEventuallyActive ==
    \A n \in NodeId :
        (n \in failed_nodes /\ NoNewScenario /\ TicksOutlastScenarios)
            ~> (n \in active_nodes /\ n \notin failed_nodes)

\* after the last scenario was created, a node that two scenarios had failed
\* is active again
C40_Witness ==
    /\ NoNewScenario
    /\ TicksOutlastScenarios
    /\ \E j, k \in 1..Len(active_failures) :
          /\ j # k
          /\ active_failures[j].node_id = active_failures[k].node_id
          /\ active_failures[j].start_time < active_failures[k].start_time
          /\ active_failures[j].recovery_time > active_failures[k].start_time
          /\ active_failures[k].node_id \in active_nodes
          /\ active_failures[k].node_id \notin failed_nodes


====
